---------------------------- MODULE Spec2Model ----------------------------
(***************************************************************************)
(* A model of the subtitle fusion algorithm of src/src/logic.ts:           *)
(*   - srtTimeToMs and hasIntersection, the interval utilities;            *)
(*   - fuseSubtitles, the per-cue decision loop, one action per branch of  *)
(*     the loop body;                                                      *)
(*   - mergeOverlappingSubtitles, the per-track overlap merger, one action *)
(*     per step of its three nested loops.                                 *)
(* Four specifications share the variables: Spec runs fuseSubtitles,       *)
(* SpecMerge runs mergeOverlappingSubtitles, SpecOverlap evaluates         *)
(* hasIntersection on millisecond inputs and SpecWord evaluates            *)
(* isWordKnown and isProperNoun.                                           *)
(***************************************************************************)
EXTENDS Integers, Sequences, FiniteSets, TLC

(***************************************************************************)
(* Bounds of the model.                                                    *)
(***************************************************************************)
\* times of the fusion runs are 0, 300, ..., 300 * MaxTick milliseconds
MaxTick == 4
\* longest target track of a fusion run
MaxTarget == 2
\* longest native track of a fusion run
MaxNative == 2
\* times of the merger runs are 0, 300, ..., 300 * MaxMergeTick milliseconds
MaxMergeTick == 3
\* longest track of a merger run
MaxMerge == 3
\* the arguments of hasIntersection are 100 * k and 100 * k + 1 milliseconds,
\* k in 0..MaxOverlapTick
MaxOverlapTick == 6
\* times of the fusion runs on chronological tracks are 0, 300, ...,
\* 300 * MaxChronoTick milliseconds
MaxChronoTick == 5
\* longest target track of a fusion run on chronological tracks
MaxChronoTarget == 3
\* longest native track of a fusion run on chronological tracks
MaxChronoNative == 2

(***************************************************************************)
(* Generic helpers on sequences and sets.                                  *)
(***************************************************************************)
Min(a, b) == IF a < b THEN a ELSE b

Max(a, b) == IF a > b THEN a ELSE b

Range(s) == {s[k] : k \in DOMAIN s}

\* the positions 1..n in order: Array.prototype.filter over an array of
\* length n is SelectSeq(Positions(n), Test)
Positions(n) == [k \in 1..n |-> k]

\* the concatenation of the sequences s[1], ..., s[Len(s)]
RECURSIVE Flatten(_)
Flatten(s) == IF s = <<>> THEN <<>> ELSE Head(s) \o Flatten(Tail(s))

(***************************************************************************)
(* Timestamps.  An SRT timestamp "HH:MM:SS,mmm" is the record of its four  *)
(* fields as split(/[:,]/) yields them; a field is <<n>> when parseInt     *)
(* reads the number n from it and <<>> when the field is missing or does   *)
(* not start with a number (parseInt gives NaN).                           *)
(***************************************************************************)
Ts(t) == [h |-> <<t \div 3600000>>, m |-> <<(t % 3600000) \div 60000>>,
          s |-> <<(t % 60000) \div 1000>>, ms |-> <<t % 1000>>]

srtTimeToMs(time) ==
  IF time.h = <<>> \/ time.m = <<>> \/ time.s = <<>> \/ time.ms = <<>>
  THEN 0
  ELSE time.h[1] * 3600000 + time.m[1] * 60000 + time.s[1] * 1000 + time.ms[1]

\* a variant of hasIntersection that takes any shared time for an overlap
hasIntersectionAnyShared(start1, end1, start2, end2) ==
  Min(srtTimeToMs(end1), srtTimeToMs(end2))
    - Max(srtTimeToMs(start1), srtTimeToMs(start2)) > 0

\* a variant of hasIntersection that lets the threshold itself pass
hasIntersectionAtLeast(start1, end1, start2, end2) ==
  Min(srtTimeToMs(end1), srtTimeToMs(end2))
    - Max(srtTimeToMs(start1), srtTimeToMs(start2)) >= 500

hasIntersection(start1, end1, start2, end2) ==
  LET start1Ms == srtTimeToMs(start1)
      end1Ms == srtTimeToMs(end1)
      start2Ms == srtTimeToMs(start2)
      end2Ms == srtTimeToMs(end2)
      intersectionStart == Max(start1Ms, start2Ms)
      intersectionEnd == Min(end1Ms, end2Ms)
  IN  intersectionEnd - intersectionStart > 500


(***************************************************************************)
(* Words and texts.  A word is the record of its lowercase spelling s and  *)
(* of cap, whether its first letter is upper case.                         *)
(***************************************************************************)
W(s, cap) == [s |-> s, cap |-> cap]

toLowerCase(word) == [word EXCEPT !.cap = FALSE]

\* the known-vocabulary set of the runs: lowercase spellings
KnownWords == {"the", "cat", "do"}

\* the language code of the runs
Language == "en"

\* the spellings that consist entirely of digits: /^\d+$/
NumericSpellings == {"42"}

\* A cue text is the sequence of its lines and a line the sequence of its
\* whitespace tokens; join('\n') of texts is their concatenation.
TextK == <<<<W("the", TRUE), W("cats", FALSE), W("paris", TRUE), W("42", FALSE)>>>>

TextU1 == <<<<W("the", TRUE), W("zebra", FALSE)>>>>

TextU2 == <<<<W("zebra", FALSE), W("quokka", FALSE)>>>>

\* one unknown word, in the plural: its lemma is not a word of the text
TextLemma == <<<<W("the", TRUE), W("zebras", FALSE)>>>>

\* a line of dialogue: a dash, then a name
TextDash == <<<<W("-", FALSE), W("paris", TRUE)>>>>

\* the texts a target cue is drawn from
TargetTexts == {TextK, TextU1, TextU2, TextLemma, TextDash}

\* the tokens without a letter or a digit
PunctuationSpellings == {"-"}

\* the text of the native cue at position p of its track
NativeText(p) == <<<<W("native", FALSE), W(ToString(p), FALSE)>>>>

\* stripHtml(text).split(/\s+/): the whitespace tokens of all the lines
TextWords(text) == Flatten(text)

\* normalizeWords(stripHtml(text)): punctuation becomes white space, so the
\* tokens without a letter or a digit vanish; the others, in lower case
normalizeWords(text) ==
  LET words == SelectSeq(TextWords(text),
                         LAMBDA word : word.s \notin PunctuationSpellings)
  IN  [j \in DOMAIN words |-> toLowerCase(words[j])]

\* what the lemmatizer script answers for a spelling
LemmaOf(s) == CASE s = "cats" -> "cat"
                [] s = "zebras" -> "zebra"
                [] OTHER -> s

\* the spellings the lemmatizer takes for nouns
NounSpellings == {"cat", "zebra", "quokka", "paris"}

\* lemmatizeSingleLine: the lemmas of the line, one per token, in lower case
\* or with the nouns capitalized (as a lemmatizer does for a language that
\* writes its nouns so), or the empty list when the subprocess fails or
\* writes to stderr
LemmatizerOutputs(line) ==
  {[j \in DOMAIN line |-> W(LemmaOf(line[j].s), FALSE)],
   [j \in DOMAIN line |-> W(LemmaOf(line[j].s), LemmaOf(line[j].s) \in NounSpellings)],
   <<>>}

\* ENGLISH_CONTRACTIONS, an excerpt: the keys as spelled in the table
ContractionKeys == {W("don't", FALSE), W("i'm", TRUE)}

ContractionTable(key) ==
  CASE key = W("don't", FALSE) -> <<W("do", FALSE), W("not", FALSE)>>
    [] key = W("i'm", TRUE) -> <<W("i", TRUE), W("am", FALSE)>>
    [] OTHER -> <<>>

\* the expansion of a contraction, <<>> for null
getContractionExpansion(word) ==
  LET wordLower == toLowerCase(word)
      expansion == IF wordLower \in ContractionKeys
                   THEN ContractionTable(wordLower) ELSE <<>>
  IN  IF expansion # <<>>
      THEN IF word.cap
           THEN [k \in DOMAIN expansion |->
                   IF k = 1 THEN [expansion[k] EXCEPT !.cap = TRUE] ELSE expansion[k]]
           ELSE expansion
      ELSE <<>>

isWordKnown(word, knownWords, language) ==
  LET wordLower == toLowerCase(word)
  IN  IF wordLower.s \in knownWords THEN TRUE
      ELSE IF language = "en" /\ getContractionExpansion(word) # <<>>
           THEN \A k \in DOMAIN getContractionExpansion(word) :
                  toLowerCase(getContractionExpansion(word)[k]).s \in knownWords
           ELSE FALSE

\* the first word of the sentence is its first token
isProperNoun(word, sentence, frequencyList) ==
  IF word.s \in PunctuationSpellings THEN FALSE
  ELSE IF ~word.cap THEN FALSE
  ELSE IF TextWords(sentence) # <<>> /\ word = TextWords(sentence)[1]
       THEN toLowerCase(word).s \notin frequencyList
       ELSE TRUE

isNumber(word) == word.s \in NumericSpellings

\* the filter of fuseSubtitles: the lemmas that are unknown, not paired with
\* a proper noun and not numbers
unknownWords(lemmatizedWords, text) ==
  LET originalWords == TextWords(text)
      origWord(j) == IF j \in DOMAIN originalWords THEN originalWords[j]
                     ELSE lemmatizedWords[j]
      keep(j) == /\ ~isWordKnown(lemmatizedWords[j], KnownWords, Language)
                 /\ ~isProperNoun(origWord(j), text, KnownWords)
                 /\ ~isNumber(lemmatizedWords[j])
      pos == SelectSeq(Positions(Len(lemmatizedWords)), keep)
  IN  [k \in DOMAIN pos |-> lemmatizedWords[pos[k]]]


(***************************************************************************)
(* The state.  The first group is a run of fuseSubtitles: its arguments,   *)
(* its locals and its result.  decisions is a history variable: for each   *)
(* cue of finalSubtitles, the branch that emitted it, the position of the  *)
(* target cue being handled and the positions of the target cues the       *)
(* emitted cue stands for.                                                 *)
(***************************************************************************)
VARIABLES targetSubs, nativeSubs, enableInlineTranslation, deeplAPI,
          pc, i, processedTargetIndices, finalSubtitles, pending,
          replacedCount, replacedWithOneUnknown, inlineTranslationCount,
          errorCount, translateCalls, hybrid, decisions

fuseVars == <<targetSubs, nativeSubs, enableInlineTranslation, deeplAPI,
              pc, i, processedTargetIndices, finalSubtitles, pending,
              replacedCount, replacedWithOneUnknown, inlineTranslationCount,
              errorCount, translateCalls, hybrid, decisions>>

\* A run of mergeOverlappingSubtitles: its argument, its locals (the loop
\* counters mi and mj, the group as the positions of its members) and its
\* result.  mergedGroups is a history variable: for each cue of merged, the
\* positions of its members, sorted as the code sorts them.
VARIABLES subtitles, mpc, mi, mj, processed, overlappingGroup, foundNewOverlap,
          merged, mergedGroups

\* The caller of the merger: mergePass is 1 while the merger runs on a track
\* and 2 while it runs on the track it returned for that track.
VARIABLES mergePass

mergeVars == <<subtitles, mpc, mi, mj, processed, overlappingGroup,
               foundNewOverlap, merged, mergedGroups, mergePass>>

\* An evaluation of hasIntersection: the four arguments in milliseconds and
\* the result.
VARIABLES overlapPc, overlapArgs, overlapResult

overlapVars == <<overlapPc, overlapArgs, overlapResult>>

\* An evaluation of isWordKnown or of isProperNoun: the arguments (the word,
\* the sentence, the known words, the language) and the result.
VARIABLES wordPc, wordArgs, wordResult

wordVars == <<wordPc, wordArgs, wordResult>>

\* A DeepLAPI object and the clock: the fields of the object, Date.now(),
\* the position of the running translateWord call and its locals.  calls is
\* a history variable: one record for every call that has returned or thrown.
VARIABLES config, cache, requestCount, lastRequestTime, now, deeplPc, call,
          retryCount, calls

deeplVars == <<config, cache, requestCount, lastRequestTime, now, deeplPc, call,
               retryCount, calls>>

\* An evaluation of srtTimeToMs: the argument and the result.
VARIABLES timePc, timeArg, timeResult

timeVars == <<timePc, timeArg, timeResult>>

vars == <<fuseVars, mergeVars, overlapVars, wordVars, deeplVars, timeVars>>

FuseIdle ==
  /\ targetSubs = <<>>
  /\ nativeSubs = <<>>
  /\ enableInlineTranslation = FALSE
  /\ deeplAPI = FALSE
  /\ pc = "idle"
  /\ i = 1
  /\ processedTargetIndices = {}
  /\ finalSubtitles = <<>>
  /\ pending = <<>>
  /\ replacedCount = 0
  /\ replacedWithOneUnknown = 0
  /\ inlineTranslationCount = 0
  /\ errorCount = 0
  /\ translateCalls = 0
  /\ hybrid = <<>>
  /\ decisions = <<>>

MergeIdle ==
  /\ subtitles = <<>>
  /\ mpc = "idle"
  /\ mi = 1
  /\ mj = 1
  /\ processed = {}
  /\ overlappingGroup = <<>>
  /\ foundNewOverlap = FALSE
  /\ merged = <<>>
  /\ mergedGroups = <<>>
  /\ mergePass = 1

OverlapIdle ==
  /\ overlapPc = "idle"
  /\ overlapArgs = <<0, 0, 0, 0>>
  /\ overlapResult = FALSE

\* no call has been made on the object
NoCall == [word |-> "", sourceLang |-> "", targetLang |-> "", context |-> <<>>,
           start |-> 0, requests |-> 0, attempts |-> 0, waits |-> <<>>,
           timeouts |-> 0]

DeepLIdle ==
  /\ config = [timeout |-> 0, maxRetries |-> 0, retryDelay |-> 0, rateLimitDelay |-> 0]
  /\ cache = <<>>
  /\ requestCount = 0
  /\ lastRequestTime = 0
  /\ now = 0
  /\ deeplPc = "idle"
  /\ call = NoCall
  /\ retryCount = 0
  /\ calls = <<>>

TimeIdle ==
  /\ timePc = "idle"
  /\ timeArg = [defined |-> FALSE, fields |-> <<>>]
  /\ timeResult = 0

WordIdle ==
  /\ wordPc = "idle"
  /\ wordArgs = [word |-> W("the", FALSE), sentence |-> <<>>,
                 knownWords |-> {}, language |-> "en"]
  /\ wordResult = FALSE

(***************************************************************************)
(* The inputs of a fusion run.  Cue times lie on a grid of 300 ms; a track *)
(* is what main hands over, the output of the merger: no two of its cues   *)
(* share any duration, in whatever order the file lists them.  The cue at  *)
(* position p carries the number 2p - 1 (the merger gives a group the      *)
(* number of its first member, so the numbers of a merged track have gaps) *)
(* or repeats the number of the first cue.                                 *)
(***************************************************************************)
Times == {300 * k : k \in 0..MaxTick}

Subtitle(index, start, end, text) ==
  [index |-> index, start |-> Ts(start), end |-> Ts(end), text |-> text]

startMs(sub) == srtTimeToMs(sub.start)

endMs(sub) == srtTimeToMs(sub.end)

\* a variant of mergeOverlap that also accepts cues that touch at a boundary
mergeOverlapTouching(groupSub, other) ==
  (startMs(groupSub) <= endMs(other)) /\ (startMs(other) <= endMs(groupSub))

\* the overlap test of mergeOverlappingSubtitles
mergeOverlap(groupSub, other) ==
  (startMs(groupSub) < endMs(other)) /\ (startMs(other) < endMs(groupSub))

IsMergedTrack(track) ==
  \A p, q \in DOMAIN track : p # q => ~mergeOverlap(track[p], track[q])

\* the cues a track on the grid can hold at position p, given the index
\* strings and the texts to draw from
Intervals == {ab \in Times \X Times : ab[1] < ab[2]}

CuesAt(indices, texts) ==
  {Subtitle(x, ab[1], ab[2], t) : x \in indices, t \in texts, ab \in Intervals}

\* the merged tracks of n cues, built one cue at a time
RECURSIVE TargetTracksOfLen(_)
TargetTracksOfLen(n) ==
  IF n = 0 THEN {<<>>}
  ELSE UNION {{Append(track, sub) :
                 sub \in {c \in CuesAt({"1", ToString(2 * n - 1)}, TargetTexts) :
                            IsMergedTrack(Append(track, c))}} :
              track \in TargetTracksOfLen(n - 1)}

RECURSIVE NativeTracksOfLen(_)
NativeTracksOfLen(n) ==
  IF n = 0 THEN {<<>>}
  ELSE UNION {{Append(track, sub) :
                 sub \in {c \in CuesAt({ToString(n)}, {NativeText(n)}) :
                            IsMergedTrack(Append(track, c))}} :
              track \in NativeTracksOfLen(n - 1)}

Init ==
  /\ targetSubs \in UNION {TargetTracksOfLen(n) : n \in 0..MaxTarget}
  /\ nativeSubs \in UNION {NativeTracksOfLen(n) : n \in 0..MaxNative}
  /\ enableInlineTranslation \in BOOLEAN
  /\ deeplAPI \in BOOLEAN
  /\ pc = "loop"
  /\ i = 1
  /\ processedTargetIndices = {}
  /\ finalSubtitles = <<>>
  /\ pending = <<>>
  /\ replacedCount = 0
  /\ replacedWithOneUnknown = 0
  /\ inlineTranslationCount = 0
  /\ errorCount = 0
  /\ translateCalls = 0
  /\ hybrid = <<>>
  /\ decisions = <<>>
  /\ MergeIdle
  /\ OverlapIdle
  /\ WordIdle
  /\ DeepLIdle
  /\ TimeIdle


(***************************************************************************)
(* fuseSubtitles.                                                          *)
(***************************************************************************)
currentTargetSub == targetSubs[i]

\* a variant of inlineTranslationService that forgets the collaborator
inlineTranslationServiceFlagOnly == enableInlineTranslation

\* inlineTranslationService is not null
inlineTranslationService == enableInlineTranslation /\ deeplAPI

\* a variant of intersectingNativeSubs that takes any shared duration
intersectingNativeSubsAnyOverlap(sub) ==
  SelectSeq(nativeSubs, LAMBDA nativeSub : mergeOverlap(sub, nativeSub))

\* nativeSubs.filter(hasIntersection with the cue), in track order
intersectingNativeSubs(sub) ==
  SelectSeq(nativeSubs,
            LAMBDA nativeSub : hasIntersection(sub.start, sub.end,
                                               nativeSub.start, nativeSub.end))

combinedNativeSub(intersecting) ==
  [text |-> Flatten([k \in DOMAIN intersecting |-> intersecting[k].text]),
   start |-> intersecting[1].start,
   end |-> intersecting[Len(intersecting)].end]

\* a variant of overlappingTargetSubs that finds the triggering cue only
overlappingTargetSubsTriggerOnly(processedIndices, combined) ==
  SelectSeq(Positions(Len(targetSubs)),
            LAMBDA p : /\ p = i
                       /\ targetSubs[p].index \notin processedIndices
                       /\ hasIntersection(combined.start, combined.end,
                                           targetSubs[p].start, targetSubs[p].end))

\* a variant of overlappingTargetSubs that leaves the cue being handled out
overlappingTargetSubsOthers(processedIndices, combined) ==
  SelectSeq(Positions(Len(targetSubs)),
            LAMBDA p : /\ p # i
                       /\ targetSubs[p].index \notin processedIndices
                       /\ hasIntersection(combined.start, combined.end,
                                           targetSubs[p].start, targetSubs[p].end))

\* targetSubs.filter(not processed and hasIntersection with the combined
\* native cue): the positions, in track order
overlappingTargetSubs(processedIndices, combined) ==
  SelectSeq(Positions(Len(targetSubs)),
            LAMBDA p : /\ targetSubs[p].index \notin processedIndices
                       /\ hasIntersection(combined.start, combined.end,
                                           targetSubs[p].start, targetSubs[p].end))

\* a variant of replacementSub that starts where the native cues start
replacementSubNativeStart(overlapping, combined) ==
  [index |-> "",
   start |-> combined.start,
   end |-> targetSubs[overlapping[Len(overlapping)]].end,
   text |-> combined.text]

\* the replacement cue of the multi-cue path
replacementSub(overlapping, combined) ==
  [index |-> "",
   start |-> targetSubs[overlapping[1]].start,
   end |-> targetSubs[overlapping[Len(overlapping)]].end,
   text |-> combined.text]

\* a variant of fallbackReplacementSub that spans the native cues
fallbackReplacementSubNativeSpan(sub, combined) ==
  [index |-> "", start |-> combined.start, end |-> combined.end,
   text |-> combined.text]

\* the replacement cue of the fallback after a failed translation
fallbackReplacementSub(sub, combined) ==
  [index |-> "", start |-> sub.start, end |-> sub.end, text |-> combined.text]

\* what the translation collaborator answers for a word
Translation(word) == W("(" \o word.s \o ")", FALSE)

\* formatInlineTranslation on one line: the translation goes after the
\* first token that matches the unknown word, letter case ignored
formatLine(line, unknownWord, translation) ==
  LET hits == SelectSeq(Positions(Len(line)),
                        LAMBDA j : toLowerCase(line[j]).s = toLowerCase(unknownWord).s)
  IN  IF hits = <<>> THEN line
      ELSE SubSeq(line, 1, hits[1]) \o <<translation>>
             \o SubSeq(line, hits[1] + 1, Len(line))

formatInlineTranslation(originalText, unknownWord, translation) ==
  LET hitLines == SelectSeq(Positions(Len(originalText)),
                            LAMBDA k : formatLine(originalText[k], unknownWord, translation)
                                         # originalText[k])
  IN  IF hitLines = <<>> THEN originalText
      ELSE [originalText EXCEPT ![hitLines[1]] =
              formatLine(originalText[hitLines[1]], unknownWord, translation)]

\* a variant of Emit that pushes the cue twice
EmitTwice(sub, kind, unknown, group) ==
  LET decision == [kind |-> kind, trigger |-> i, unknown |-> unknown,
                   group |-> group]
  IN  /\ finalSubtitles' = Append(Append(finalSubtitles, sub), sub)
      /\ decisions' = Append(Append(decisions, decision), decision)

\* a variant of Emit that puts the cue in front of the cues emitted so far
EmitFirst(sub, kind, unknown, group) ==
  /\ finalSubtitles' = <<sub>> \o finalSubtitles
  /\ decisions' = <<[kind |-> kind, trigger |-> i, unknown |-> unknown,
                      group |-> group]>> \o decisions

\* finalSubtitles.push(sub), with the record of the decision
Emit(sub, kind, unknown, group) ==
  /\ finalSubtitles' = Append(finalSubtitles, sub)
  /\ decisions' = Append(decisions, [kind |-> kind, trigger |-> i,
                                      unknown |-> unknown, group |-> group])

(***************************************************************************)
(* The inputs of a fusion run on the tracks of a well-formed file: the     *)
(* target track is merged, in chronological order and numbered 1, 3, 5,    *)
(* ...; the native track is merged, in whatever order.                     *)
(***************************************************************************)
ChronoTimes == {300 * k : k \in 0..MaxChronoTick}

ChronoIntervals == {ab \in ChronoTimes \X ChronoTimes : ab[1] < ab[2]}

\* the texts of the target cues of these runs
ChronoTexts == {TextK, TextU1}

IsChronological(track) ==
  \A p, q \in DOMAIN track : p < q => startMs(track[p]) <= startMs(track[q])

RECURSIVE ChronoTargetTracksOfLen(_)
ChronoTargetTracksOfLen(n) ==
  IF n = 0 THEN {<<>>}
  ELSE UNION {{Append(track, sub) :
                 sub \in {c \in {Subtitle(ToString(2 * n - 1), ab[1], ab[2], t) :
                                   t \in ChronoTexts, ab \in ChronoIntervals} :
                            /\ IsMergedTrack(Append(track, c))
                            /\ IsChronological(Append(track, c))}} :
              track \in ChronoTargetTracksOfLen(n - 1)}

RECURSIVE ChronoNativeTracksOfLen(_)
ChronoNativeTracksOfLen(n) ==
  IF n = 0 THEN {<<>>}
  ELSE UNION {{Append(track, sub) :
                 sub \in {c \in {Subtitle(ToString(n), ab[1], ab[2], NativeText(n)) :
                                   ab \in ChronoIntervals} :
                            IsMergedTrack(Append(track, c))}} :
              track \in ChronoNativeTracksOfLen(n - 1)}

InitChrono ==
  /\ targetSubs \in UNION {ChronoTargetTracksOfLen(n) : n \in 0..MaxChronoTarget}
  /\ nativeSubs \in UNION {ChronoNativeTracksOfLen(n) : n \in 0..MaxChronoNative}
  /\ enableInlineTranslation \in BOOLEAN
  /\ deeplAPI \in BOOLEAN
  /\ pc = "loop"
  /\ i = 1
  /\ processedTargetIndices = {}
  /\ finalSubtitles = <<>>
  /\ pending = <<>>
  /\ replacedCount = 0
  /\ replacedWithOneUnknown = 0
  /\ inlineTranslationCount = 0
  /\ errorCount = 0
  /\ translateCalls = 0
  /\ hybrid = <<>>
  /\ decisions = <<>>
  /\ MergeIdle
  /\ OverlapIdle
  /\ WordIdle
  /\ DeepLIdle
  /\ TimeIdle

\* the cue at position i is already processed: continue
LoopSkip ==
  /\ pc = "loop"
  /\ i <= Len(targetSubs)
  /\ currentTargetSub.index \in processedTargetIndices
  /\ i' = i + 1
  /\ UNCHANGED <<targetSubs, nativeSubs, enableInlineTranslation, deeplAPI, pc,
                 processedTargetIndices, finalSubtitles, pending, replacedCount,
                 replacedWithOneUnknown, inlineTranslationCount, errorCount,
                 translateCalls, hybrid, decisions>>
  /\ UNCHANGED <<mergeVars, overlapVars, wordVars, deeplVars, timeVars>>

\* a variant of Handling whose loop stops short of the last cue
HandlingButLast == pc = "loop" /\ i < Len(targetSubs)
                     /\ currentTargetSub.index \notin processedTargetIndices

\* the guard of the loop body past the processed test, and the unknown
\* words the body computes from one answer of the lemmatizer
Handling == pc = "loop" /\ i <= Len(targetSubs)
              /\ currentTargetSub.index \notin processedTargetIndices

UnknownChoices ==
  {unknownWords(lemmatizedWords, currentTargetSub.text) :
     lemmatizedWords \in LemmatizerOutputs(normalizeWords(currentTargetSub.text))}

\* a variant of Keep that shows the native text when there is one
KeepReplacing ==
  /\ Handling
  /\ \E unknown \in UnknownChoices :
       /\ Len(unknown) = 0
       /\ IF intersectingNativeSubs(currentTargetSub) # <<>>
          THEN Emit(fallbackReplacementSub(currentTargetSub,
                      combinedNativeSub(intersectingNativeSubs(currentTargetSub))),
                    "Kept", 0, {i})
          ELSE Emit(currentTargetSub, "Kept", 0, {i})
  /\ processedTargetIndices' = processedTargetIndices \cup {currentTargetSub.index}
  /\ i' = i + 1
  /\ UNCHANGED <<targetSubs, nativeSubs, enableInlineTranslation, deeplAPI, pc,
                 pending, replacedCount, replacedWithOneUnknown,
                 inlineTranslationCount, errorCount, translateCalls, hybrid>>
  /\ UNCHANGED <<mergeVars, overlapVars, wordVars, deeplVars, timeVars>>

\* no unknown word: the cue is kept
Keep ==
  /\ Handling
  /\ \E unknown \in UnknownChoices :
       /\ Len(unknown) = 0
       /\ Emit(currentTargetSub, "Kept", 0, {i})
  /\ processedTargetIndices' = processedTargetIndices \cup {currentTargetSub.index}
  /\ i' = i + 1
  /\ UNCHANGED <<targetSubs, nativeSubs, enableInlineTranslation, deeplAPI, pc,
                 pending, replacedCount, replacedWithOneUnknown,
                 inlineTranslationCount, errorCount, translateCalls, hybrid>>
  /\ UNCHANGED <<mergeVars, overlapVars, wordVars, deeplVars, timeVars>>

\* a variant of TranslateCall that does not wait for the call: the loop
\* goes on to the next position while the call is outstanding
TranslateCallNoAwait ==
  /\ Handling
  /\ inlineTranslationService
  /\ \E unknown \in UnknownChoices :
       /\ Len(unknown) = 1
       /\ ~isProperNoun(unknown[1], currentTargetSub.text, KnownWords)
       /\ ~isNumber(unknown[1])
       /\ pending' = pending \o unknown
  /\ i' = i + 1
  /\ translateCalls' = translateCalls + 1
  /\ UNCHANGED <<targetSubs, nativeSubs, enableInlineTranslation, deeplAPI, pc,
                 processedTargetIndices, finalSubtitles, replacedCount,
                 replacedWithOneUnknown, inlineTranslationCount, errorCount,
                 hybrid, decisions>>
  /\ UNCHANGED <<mergeVars, overlapVars, wordVars, deeplVars, timeVars>>


\* one unknown word and a translation service: the word is sent to the
\* translation collaborator and the run waits for the answer
TranslateCall ==
  /\ Handling
  /\ inlineTranslationService
  /\ \E unknown \in UnknownChoices :
       /\ Len(unknown) = 1
       /\ ~isProperNoun(unknown[1], currentTargetSub.text, KnownWords)
       /\ ~isNumber(unknown[1])
       /\ pending' = unknown
  /\ pc' = "await"
  /\ translateCalls' = translateCalls + 1
  /\ UNCHANGED <<targetSubs, nativeSubs, enableInlineTranslation, deeplAPI, i,
                 processedTargetIndices, finalSubtitles, replacedCount,
                 replacedWithOneUnknown, inlineTranslationCount, errorCount,
                 hybrid, decisions>>
  /\ UNCHANGED <<mergeVars, overlapVars, wordVars, deeplVars, timeVars>>

\* one unknown word and a translation service, but the service takes the
\* lemma for a proper noun or a number: nothing is sent and the cue is kept
TranslateSkipped ==
  /\ Handling
  /\ inlineTranslationService
  /\ \E unknown \in UnknownChoices :
       /\ Len(unknown) = 1
       /\ isProperNoun(unknown[1], currentTargetSub.text, KnownWords)
            \/ isNumber(unknown[1])
       /\ Emit(currentTargetSub, "KeptNotTranslated", 1, {i})
  /\ processedTargetIndices' = processedTargetIndices \cup {currentTargetSub.index}
  /\ i' = i + 1
  /\ UNCHANGED <<targetSubs, nativeSubs, enableInlineTranslation, deeplAPI, pc,
                 pending, replacedCount, replacedWithOneUnknown,
                 inlineTranslationCount, errorCount, translateCalls, hybrid>>
  /\ UNCHANGED <<mergeVars, overlapVars, wordVars, deeplVars, timeVars>>

\* the translation arrived: result.translationApplied
TranslateOk ==
  /\ pc = "await"
  /\ inlineTranslationCount' = inlineTranslationCount + 1
  /\ Emit([currentTargetSub EXCEPT !.text =
             formatInlineTranslation(currentTargetSub.text, pending[1],
                                     Translation(pending[1]))],
          "TranslatedInline", 1, {i})
  /\ processedTargetIndices' = processedTargetIndices \cup {currentTargetSub.index}
  /\ i' = i + 1
  /\ pc' = "loop"
  /\ pending' = <<>>
  /\ UNCHANGED <<targetSubs, nativeSubs, enableInlineTranslation, deeplAPI,
                 replacedCount, replacedWithOneUnknown, errorCount,
                 translateCalls, hybrid>>
  /\ UNCHANGED <<mergeVars, overlapVars, wordVars, deeplVars, timeVars>>

\* a variant of TranslateFailReplace that counts the error only when the cue
\* is kept
TranslateFailReplaceUncounted ==
  /\ pc = "await"
  /\ intersectingNativeSubs(currentTargetSub) # <<>>
  /\ Emit(fallbackReplacementSub(currentTargetSub,
             combinedNativeSub(intersectingNativeSubs(currentTargetSub))),
          "ReplacedAfterError", 1, {i})
  /\ replacedCount' = replacedCount + 1
  /\ replacedWithOneUnknown' = replacedWithOneUnknown + 1
  /\ processedTargetIndices' = processedTargetIndices \cup {currentTargetSub.index}
  /\ i' = i + 1
  /\ pc' = "loop"
  /\ pending' = <<>>
  /\ UNCHANGED <<targetSubs, nativeSubs, enableInlineTranslation, deeplAPI,
                 inlineTranslationCount, errorCount, translateCalls, hybrid>>
  /\ UNCHANGED <<mergeVars, overlapVars, wordVars, deeplVars, timeVars>>

\* the translation failed (result.error) and a native cue intersects
TranslateFailReplace ==
  /\ pc = "await"
  /\ errorCount' = errorCount + 1
  /\ intersectingNativeSubs(currentTargetSub) # <<>>
  /\ Emit(fallbackReplacementSub(currentTargetSub,
             combinedNativeSub(intersectingNativeSubs(currentTargetSub))),
          "ReplacedAfterError", 1, {i})
  /\ replacedCount' = replacedCount + 1
  /\ replacedWithOneUnknown' = replacedWithOneUnknown + 1
  /\ processedTargetIndices' = processedTargetIndices \cup {currentTargetSub.index}
  /\ i' = i + 1
  /\ pc' = "loop"
  /\ pending' = <<>>
  /\ UNCHANGED <<targetSubs, nativeSubs, enableInlineTranslation, deeplAPI,
                 inlineTranslationCount, translateCalls, hybrid>>
  /\ UNCHANGED <<mergeVars, overlapVars, wordVars, deeplVars, timeVars>>

\* the translation failed (result.error) and no native cue intersects
TranslateFailKeep ==
  /\ pc = "await"
  /\ errorCount' = errorCount + 1
  /\ intersectingNativeSubs(currentTargetSub) = <<>>
  /\ Emit(currentTargetSub, "KeptAfterError", 1, {i})
  /\ processedTargetIndices' = processedTargetIndices \cup {currentTargetSub.index}
  /\ i' = i + 1
  /\ pc' = "loop"
  /\ pending' = <<>>
  /\ UNCHANGED <<targetSubs, nativeSubs, enableInlineTranslation, deeplAPI,
                 replacedCount, replacedWithOneUnknown, inlineTranslationCount,
                 translateCalls, hybrid>>
  /\ UNCHANGED <<mergeVars, overlapVars, wordVars, deeplVars, timeVars>>

\* the guard of the multi-cue replace path: some unknown word, and the
\* single-unknown-word path not taken
MultiPath(unknown) ==
  /\ Len(unknown) # 0
  /\ ~(Len(unknown) = 1 /\ inlineTranslationService)

\* multi-cue path, no native cue intersects the cue: the cue is kept
MultiNoNative ==
  /\ Handling
  /\ intersectingNativeSubs(currentTargetSub) = <<>>
  /\ \E unknown \in UnknownChoices :
       /\ MultiPath(unknown)
       /\ Emit(currentTargetSub, "KeptNoNative", Len(unknown), {i})
  /\ processedTargetIndices' = processedTargetIndices \cup {currentTargetSub.index}
  /\ i' = i + 1
  /\ UNCHANGED <<targetSubs, nativeSubs, enableInlineTranslation, deeplAPI, pc,
                 pending, replacedCount, replacedWithOneUnknown,
                 inlineTranslationCount, errorCount, translateCalls, hybrid>>
  /\ UNCHANGED <<mergeVars, overlapVars, wordVars, deeplVars, timeVars>>

\* multi-cue path, no target cue intersects the combined native cue: the
\* cue is kept
MultiNoTarget ==
  /\ Handling
  /\ intersectingNativeSubs(currentTargetSub) # <<>>
  /\ LET combined == combinedNativeSub(intersectingNativeSubs(currentTargetSub))
     IN  overlappingTargetSubs(processedTargetIndices, combined) = <<>>
  /\ \E unknown \in UnknownChoices :
       /\ MultiPath(unknown)
       /\ Emit(currentTargetSub, "KeptNoTarget", Len(unknown), {i})
  /\ processedTargetIndices' = processedTargetIndices \cup {currentTargetSub.index}
  /\ i' = i + 1
  /\ UNCHANGED <<targetSubs, nativeSubs, enableInlineTranslation, deeplAPI, pc,
                 pending, replacedCount, replacedWithOneUnknown,
                 inlineTranslationCount, errorCount, translateCalls, hybrid>>
  /\ UNCHANGED <<mergeVars, overlapVars, wordVars, deeplVars, timeVars>>

\* multi-cue path: one replacement cue for all the target cues that
\* intersect the combined native cue
MultiReplace ==
  /\ Handling
  /\ intersectingNativeSubs(currentTargetSub) # <<>>
  /\ LET combined == combinedNativeSub(intersectingNativeSubs(currentTargetSub))
         overlapping == overlappingTargetSubs(processedTargetIndices, combined)
     IN  /\ overlapping # <<>>
         /\ \E unknown \in UnknownChoices :
              /\ MultiPath(unknown)
              /\ Emit(replacementSub(overlapping, combined), "Replaced",
                      Len(unknown), Range(overlapping))
         /\ replacedCount' = replacedCount + Len(overlapping)
         /\ processedTargetIndices' = processedTargetIndices \cup
               {targetSubs[overlapping[k]].index : k \in DOMAIN overlapping}
  /\ i' = i + 1
  /\ UNCHANGED <<targetSubs, nativeSubs, enableInlineTranslation, deeplAPI, pc,
                 pending, replacedWithOneUnknown, inlineTranslationCount,
                 errorCount, translateCalls, hybrid>>
  /\ UNCHANGED <<mergeVars, overlapVars, wordVars, deeplVars, timeVars>>

\* a variant of String that numbers from zero
StringFromZero(n) == ToString(n - 1)

\* String(n)
String(n) == ToString(n)

\* a variant of Return that numbers the emitted cues in place, and so writes
\* the new index into the input cues that were emitted as they are
ReturnInPlace ==
  /\ pc = "loop"
  /\ i > Len(targetSubs)
  /\ hybrid' = [k \in DOMAIN finalSubtitles |->
                  [finalSubtitles[k] EXCEPT !.index = String(k)]]
  /\ targetSubs' =
       [p \in DOMAIN targetSubs |->
          LET same == {k \in DOMAIN decisions :
                         decisions[k].trigger = p /\ finalSubtitles[k] = targetSubs[p]}
          IN  IF same = {} THEN targetSubs[p]
              ELSE [targetSubs[p] EXCEPT !.index = String(CHOOSE k \in same : TRUE)]]
  /\ pc' = "done"
  /\ UNCHANGED <<nativeSubs, enableInlineTranslation, deeplAPI, i,
                 processedTargetIndices, finalSubtitles, pending, replacedCount,
                 replacedWithOneUnknown, inlineTranslationCount, errorCount,
                 translateCalls, decisions>>
  /\ UNCHANGED <<mergeVars, overlapVars, wordVars, deeplVars, timeVars>>

\* the loop is over: the cues are numbered and returned
Return ==
  /\ pc = "loop"
  /\ i > Len(targetSubs)
  /\ hybrid' = [k \in DOMAIN finalSubtitles |->
                  [finalSubtitles[k] EXCEPT !.index = String(k)]]
  /\ pc' = "done"
  /\ UNCHANGED <<targetSubs, nativeSubs, enableInlineTranslation, deeplAPI, i,
                 processedTargetIndices, finalSubtitles, pending, replacedCount,
                 replacedWithOneUnknown, inlineTranslationCount, errorCount,
                 translateCalls, decisions>>
  /\ UNCHANGED <<mergeVars, overlapVars, wordVars, deeplVars, timeVars>>

Next ==
  \/ LoopSkip
  \/ Keep
  \/ TranslateCall
  \/ TranslateSkipped
  \/ TranslateOk
  \/ TranslateFailReplace
  \/ TranslateFailKeep
  \/ MultiNoNative
  \/ MultiNoTarget
  \/ MultiReplace
  \/ Return

Spec == Init /\ [][Next]_vars

\* The run goes on as long as it has a step to take: the loop body is
\* synchronous but for the call of the translation collaborator, and that
\* call ends, by an answer or by an error (the request is aborted after
\* config.timeout and retried at most config.maxRetries times).
SpecLive == Init /\ [][Next]_vars /\ WF_vars(Next)

\* the runs on the tracks of a well-formed file
SpecChrono == InitChrono /\ [][Next]_vars


(***************************************************************************)
(* mergeOverlappingSubtitles.  The cues of a run have start <= end on a    *)
(* grid of 300 ms, in any order; the cue at position p carries the number  *)
(* p and a text of its own.                                                *)
(***************************************************************************)
MergeTimes == {300 * k : k \in 0..MaxMergeTick}

MergeText(p) == <<<<W("line", FALSE), W(ToString(p), FALSE)>>>>

MergeTracks ==
  {track \in UNION {[1..n -> {Subtitle("", a, b, <<>>) :
                                 a \in MergeTimes, b \in MergeTimes}] : n \in 0..MaxMerge} :
     \A p \in DOMAIN track : startMs(track[p]) <= endMs(track[p])}

NumberMerge(track) ==
  [p \in DOMAIN track |-> [track[p] EXCEPT !.index = ToString(p), !.text = MergeText(p)]]

InitMerge ==
  /\ subtitles \in {NumberMerge(track) : track \in MergeTracks}
  /\ mpc = "outer"
  /\ mi = 1
  /\ mj = 1
  /\ processed = {}
  /\ overlappingGroup = <<>>
  /\ foundNewOverlap = FALSE
  /\ merged = <<>>
  /\ mergedGroups = <<>>
  /\ mergePass = 1
  /\ FuseIdle
  /\ OverlapIdle
  /\ WordIdle
  /\ DeepLIdle
  /\ TimeIdle

\* a variant of hasOverlap that looks at the first member of the group only
hasOverlapFirst(group, other) ==
  mergeOverlap(subtitles[group[1]], subtitles[other])

\* a variant of hasOverlap that tests the last member of the group only
hasOverlapLast(group, other) ==
  mergeOverlap(subtitles[group[Len(group)]], subtitles[other])

\* overlappingGroup.some(groupSub => overlap with other)
hasOverlap(group, other) ==
  \E k \in DOMAIN group : mergeOverlap(subtitles[group[k]], subtitles[other])

\* overlappingGroup.sort((a, b) => a.startMs - b.startMs): a stable sort of
\* the positions by start time
RECURSIVE sortByStart(_)
sortByStart(group) ==
  IF group = <<>> THEN <<>>
  ELSE LET front == sortByStart(SubSeq(group, 1, Len(group) - 1))
           last == group[Len(group)]
           before == SelectSeq(front, LAMBDA p : startMs(subtitles[p]) <= startMs(subtitles[last]))
           after == SelectSeq(front, LAMBDA p : startMs(subtitles[p]) > startMs(subtitles[last]))
       IN  before \o <<last>> \o after

\* a variant of mergedSubtitle that keeps the text of the first member only
mergedSubtitleFirstText(group) ==
  [index |-> subtitles[group[1]].index,
   start |-> subtitles[group[1]].start,
   end |-> subtitles[group[Len(group)]].end,
   text |-> subtitles[group[1]].text]

\* the merged cue of a sorted group
mergedSubtitle(group) ==
  [index |-> subtitles[group[1]].index,
   start |-> subtitles[group[1]].start,
   end |-> subtitles[group[Len(group)]].end,
   text |-> Flatten([k \in DOMAIN group |-> subtitles[group[k]].text])]

\* subtitles.length === 0: the argument is returned
MergeEmpty ==
  /\ mpc = "outer"
  /\ Len(subtitles) = 0
  /\ merged' = subtitles
  /\ mpc' = "done"
  /\ UNCHANGED <<subtitles, mi, mj, processed, overlappingGroup, foundNewOverlap,
                 mergedGroups>>
  /\ UNCHANGED <<mergePass, fuseVars, overlapVars, wordVars, deeplVars, timeVars>>

\* outer loop, cue mi already in a group: continue
OuterSkip ==
  /\ mpc = "outer"
  /\ mi <= Len(subtitles)
  /\ mi \in processed
  /\ mi' = mi + 1
  /\ UNCHANGED <<subtitles, mpc, mj, processed, overlappingGroup, foundNewOverlap,
                 merged, mergedGroups>>
  /\ UNCHANGED <<mergePass, fuseVars, overlapVars, wordVars, deeplVars, timeVars>>

\* outer loop, cue mi starts a group
OuterStart ==
  /\ mpc = "outer"
  /\ mi <= Len(subtitles)
  /\ mi \notin processed
  /\ overlappingGroup' = <<mi>>
  /\ processed' = processed \cup {mi}
  /\ foundNewOverlap' = TRUE
  /\ mpc' = "while"
  /\ UNCHANGED <<subtitles, mi, mj, merged, mergedGroups>>
  /\ UNCHANGED <<mergePass, fuseVars, overlapVars, wordVars, deeplVars, timeVars>>

\* while (foundNewOverlap): one more scan of the track
WhileScan ==
  /\ mpc = "while"
  /\ foundNewOverlap
  /\ foundNewOverlap' = FALSE
  /\ mj' = 1
  /\ mpc' = "inner"
  /\ UNCHANGED <<subtitles, mi, processed, overlappingGroup, merged, mergedGroups>>
  /\ UNCHANGED <<mergePass, fuseVars, overlapVars, wordVars, deeplVars, timeVars>>

\* inner loop, cue mj already in a group: continue
InnerSkip ==
  /\ mpc = "inner"
  /\ mj <= Len(subtitles)
  /\ mj \in processed
  /\ mj' = mj + 1
  /\ UNCHANGED <<subtitles, mpc, mi, processed, overlappingGroup, foundNewOverlap,
                 merged, mergedGroups>>
  /\ UNCHANGED <<mergePass, fuseVars, overlapVars, wordVars, deeplVars, timeVars>>

\* a variant of InnerAdd that does not ask for another scan of the track
InnerAddNoRescan ==
  /\ mpc = "inner"
  /\ mj <= Len(subtitles)
  /\ mj \notin processed
  /\ hasOverlap(overlappingGroup, mj)
  /\ overlappingGroup' = Append(overlappingGroup, mj)
  /\ processed' = processed \cup {mj}
  /\ mj' = mj + 1
  /\ UNCHANGED <<subtitles, mpc, mi, foundNewOverlap, merged, mergedGroups>>
  /\ UNCHANGED <<mergePass, fuseVars, overlapVars, wordVars, deeplVars, timeVars>>

\* inner loop, cue mj overlaps a member of the group: it joins the group
InnerAdd ==
  /\ mpc = "inner"
  /\ mj <= Len(subtitles)
  /\ mj \notin processed
  /\ hasOverlap(overlappingGroup, mj)
  /\ overlappingGroup' = Append(overlappingGroup, mj)
  /\ processed' = processed \cup {mj}
  /\ foundNewOverlap' = TRUE
  /\ mj' = mj + 1
  /\ UNCHANGED <<subtitles, mpc, mi, merged, mergedGroups>>
  /\ UNCHANGED <<mergePass, fuseVars, overlapVars, wordVars, deeplVars, timeVars>>

\* inner loop, cue mj overlaps no member of the group
InnerPass ==
  /\ mpc = "inner"
  /\ mj <= Len(subtitles)
  /\ mj \notin processed
  /\ ~hasOverlap(overlappingGroup, mj)
  /\ mj' = mj + 1
  /\ UNCHANGED <<subtitles, mpc, mi, processed, overlappingGroup, foundNewOverlap,
                 merged, mergedGroups>>
  /\ UNCHANGED <<mergePass, fuseVars, overlapVars, wordVars, deeplVars, timeVars>>

\* inner loop over
InnerEnd ==
  /\ mpc = "inner"
  /\ mj > Len(subtitles)
  /\ mpc' = "while"
  /\ UNCHANGED <<subtitles, mi, mj, processed, overlappingGroup, foundNewOverlap,
                 merged, mergedGroups>>
  /\ UNCHANGED <<mergePass, fuseVars, overlapVars, wordVars, deeplVars, timeVars>>

\* the group is complete: it is sorted and its merged cue is pushed
GroupEmit ==
  /\ mpc = "while"
  /\ ~foundNewOverlap
  /\ merged' = Append(merged, mergedSubtitle(sortByStart(overlappingGroup)))
  /\ mergedGroups' = Append(mergedGroups, sortByStart(overlappingGroup))
  /\ overlappingGroup' = <<>>
  /\ mi' = mi + 1
  /\ mpc' = "outer"
  /\ UNCHANGED <<subtitles, mj, processed, foundNewOverlap>>
  /\ UNCHANGED <<mergePass, fuseVars, overlapVars, wordVars, deeplVars, timeVars>>

\* outer loop over: merged is returned
MergeReturn ==
  /\ mpc = "outer"
  /\ Len(subtitles) > 0
  /\ mi > Len(subtitles)
  /\ mpc' = "done"
  /\ UNCHANGED <<subtitles, mi, mj, processed, overlappingGroup, foundNewOverlap,
                 merged, mergedGroups>>
  /\ UNCHANGED <<mergePass, fuseVars, overlapVars, wordVars, deeplVars, timeVars>>

NextMerge ==
  \/ MergeEmpty
  \/ OuterSkip
  \/ OuterStart
  \/ WhileScan
  \/ InnerSkip
  \/ InnerAdd
  \/ InnerPass
  \/ InnerEnd
  \/ GroupEmit
  \/ MergeReturn

SpecMerge == InitMerge /\ [][NextMerge]_vars

\* The caller hands the track the merger returned to the merger again.
MergeAgain ==
  /\ mpc = "done"
  /\ mergePass = 1
  /\ mergePass' = 2
  /\ subtitles' = merged
  /\ mpc' = "outer"
  /\ mi' = 1
  /\ mj' = 1
  /\ processed' = {}
  /\ overlappingGroup' = <<>>
  /\ foundNewOverlap' = FALSE
  /\ merged' = <<>>
  /\ mergedGroups' = <<>>
  /\ UNCHANGED <<fuseVars, overlapVars, wordVars, deeplVars, timeVars>>

NextMergeTwice ==
  \/ NextMerge
  \/ MergeAgain

SpecMergeTwice == InitMerge /\ [][NextMergeTwice]_vars

(***************************************************************************)
(* hasIntersection on millisecond inputs: the four arguments are written   *)
(* as timestamps and handed to the function.                               *)
(***************************************************************************)
OverlapTimes == {100 * k + d : k \in 0..MaxOverlapTick, d \in {0, 1}}

InitOverlap ==
  /\ overlapPc = "args"
  /\ overlapArgs \in OverlapTimes \X OverlapTimes \X OverlapTimes \X OverlapTimes
  /\ overlapResult = FALSE
  /\ FuseIdle
  /\ MergeIdle
  /\ WordIdle
  /\ DeepLIdle
  /\ TimeIdle

OverlapCall ==
  /\ overlapPc = "args"
  /\ overlapResult' = hasIntersection(Ts(overlapArgs[1]), Ts(overlapArgs[2]),
                                       Ts(overlapArgs[3]), Ts(overlapArgs[4]))
  /\ overlapPc' = "done"
  /\ UNCHANGED overlapArgs
  /\ UNCHANGED <<fuseVars, mergeVars, wordVars, deeplVars, timeVars>>

NextOverlap == OverlapCall

SpecOverlap == InitOverlap /\ [][NextOverlap]_vars

(***************************************************************************)
(* isWordKnown and isProperNoun on a word, a sentence, a set of known      *)
(* words and a language.                                                   *)
(***************************************************************************)
\* a line of dialogue that opens with a dash, then a known word
TextDashThe == <<<<W("-", FALSE), W("the", TRUE), W("cat", FALSE)>>>>

\* a sentence that opens with a name
TextParis == <<<<W("paris", TRUE), W("the", FALSE)>>>>

WordSentences == {<<>>, TextK, TextDash, TextDashThe, TextParis}

\* the words handed to the two functions, in lower case and capitalized
WordChoices ==
  {W(x, cap) : x \in {"the", "paris", "do", "don't", "i'm", "-"}, cap \in BOOLEAN}

\* the known sets: any set of these spellings
KnownChoices == SUBSET {"the", "do", "not", "i", "am", "don't"}

LanguageChoices == {"en", "fr"}

InitWord ==
  /\ wordPc = "args"
  /\ wordArgs \in [word : WordChoices, sentence : WordSentences,
                    knownWords : KnownChoices, language : LanguageChoices]
  /\ wordResult = FALSE
  /\ FuseIdle
  /\ MergeIdle
  /\ OverlapIdle
  /\ DeepLIdle
  /\ TimeIdle

IsWordKnownCall ==
  /\ wordPc = "args"
  /\ wordResult' = isWordKnown(wordArgs.word, wordArgs.knownWords, wordArgs.language)
  /\ wordPc' = "known"
  /\ UNCHANGED wordArgs
  /\ UNCHANGED <<fuseVars, mergeVars, overlapVars, deeplVars, timeVars>>

IsProperNounCall ==
  /\ wordPc = "args"
  /\ wordResult' = isProperNoun(wordArgs.word, wordArgs.sentence, wordArgs.knownWords)
  /\ wordPc' = "proper"
  /\ UNCHANGED wordArgs
  /\ UNCHANGED <<fuseVars, mergeVars, overlapVars, deeplVars, timeVars>>

NextWord ==
  \/ IsWordKnownCall
  \/ IsProperNounCall

SpecWord == InitWord /\ [][NextWord]_vars


(***************************************************************************)
(* Definitions the properties share.  They read the inputs and the record  *)
(* of the decisions; none of them uses an operator of the model of the     *)
(* code above but the reading of a timestamp.                              *)
(***************************************************************************)
\* the duration two cues share, in milliseconds (negative: the gap)
SharedMs(a, b) ==
  (IF endMs(a) < endMs(b) THEN endMs(a) ELSE endMs(b))
    - (IF startMs(a) > startMs(b) THEN startMs(a) ELSE startMs(b))

\* the 500 ms overlap predicate of the specification
Overlaps500(a, b) == SharedMs(a, b) > 500

\* the positions of the native cues that overlap the target cue at position p
NativeOver(p) == {n \in DOMAIN nativeSubs : Overlaps500(targetSubs[p], nativeSubs[n])}

LeastOf(S) == CHOOSE x \in S : \A y \in S : x <= y

GreatestOf(S) == CHOOSE x \in S : \A y \in S : x >= y

\* the combined native span of the target cue at position p: from the start
\* of the first overlapping native cue of the track to the end of the last
NativeSpan(p) ==
  [start |-> nativeSubs[LeastOf(NativeOver(p))].start,
   end |-> nativeSubs[GreatestOf(NativeOver(p))].end]

\* the target positions that the first k decisions consumed, and the index
\* strings they marked
ConsumedBy(k) == UNION {decisions[j].group : j \in 1..k}

MarkedBy(k) == {targetSubs[p].index : p \in ConsumedBy(k)}

\* the decisions of the multi-cue replace path
MultiKinds == {"Replaced", "KeptNoNative", "KeptNoTarget"}

\* the decisions that follow a call of the translation collaborator
TranslateKinds == {"TranslatedInline", "ReplacedAfterError", "KeptAfterError"}

\* the decisions made so far
Decided == DOMAIN decisions


\* the texts of the native cues that overlap the target cue at position p,
\* joined in track order
RECURSIVE NativeTextFrom(_, _)
NativeTextFrom(p, n) ==
  IF n > Len(nativeSubs) THEN <<>>
  ELSE (IF n \in NativeOver(p) THEN nativeSubs[n].text ELSE <<>>)
         \o NativeTextFrom(p, n + 1)

\* how many of the decisions so far are of one of the kinds
CountKinds(kinds) == Cardinality({k \in Decided : decisions[k].kind \in kinds})

\* the number of decisions that stand for the target cue at position p
TimesConsumed(p) == Cardinality({k \in Decided : p \in decisions[k].group})

\* the decision took the multi-cue replace path: some unknown word, and not
\* one unknown word with a translation service
TookMultiPath(d) ==
  /\ d.unknown >= 1
  /\ ~(d.unknown = 1 /\ enableInlineTranslation /\ deeplAPI)

(***************************************************************************)
(* C1.  When the run has ended, every target cue has been consumed exactly *)
(* once: exactly one emitted cue stands for it, either the cue itself or   *)
(* the replacement of the group it was folded into.                        *)
(***************************************************************************)
C1_ConsumedExactlyOnce ==
  pc = "done" => \A p \in DOMAIN targetSubs : TimesConsumed(p) = 1

(***************************************************************************)
(* C2.  In the multi-cue replace path, when a native cue overlaps the      *)
(* triggering cue, the replacement group is exactly the set of the target  *)
(* cues not marked consumed before the step whose interval overlaps the    *)
(* combined native span by more than 500 ms; every cue of the group is     *)
(* marked consumed and one output cue, with the native text, stands for    *)
(* the whole group, whatever the unknown words of its members.             *)
(***************************************************************************)
C2_Group(k) ==
  {p \in DOMAIN targetSubs :
     /\ targetSubs[p].index \notin MarkedBy(k - 1)
     /\ Overlaps500(NativeSpan(decisions[k].trigger), targetSubs[p])}

C2_ReplacementGroup ==
  \A k \in Decided :
    (TookMultiPath(decisions[k]) /\ NativeOver(decisions[k].trigger) # {}) =>
      /\ C2_Group(k) # {} =>
           /\ decisions[k].kind = "Replaced"
           /\ decisions[k].group = C2_Group(k)
           /\ finalSubtitles[k].text = NativeTextFrom(decisions[k].trigger, 1)
      /\ \A p \in C2_Group(k) :
           /\ targetSubs[p].index \in processedTargetIndices
           /\ TimesConsumed(p) = 1

C2_Witness ==
  \E k \in Decided :
    /\ decisions[k].kind = "Replaced"
    /\ Cardinality(decisions[k].group) >= 2
    /\ \E p \in decisions[k].group :
         p # decisions[k].trigger /\ targetSubs[p].text = TextK

(***************************************************************************)
(* C3.  The replacement cue of the multi-cue replace path spans from the   *)
(* least start to the greatest end of the target cues of its group, and    *)
(* its text is the combined native text.                                   *)
(***************************************************************************)
C3_ReplacementSpan ==
  \A k \in Decided :
    decisions[k].kind = "Replaced" =>
      /\ \A p \in decisions[k].group :
           /\ startMs(finalSubtitles[k]) <= startMs(targetSubs[p])
           /\ endMs(finalSubtitles[k]) >= endMs(targetSubs[p])
      /\ \E p \in decisions[k].group :
           startMs(finalSubtitles[k]) = startMs(targetSubs[p])
      /\ \E p \in decisions[k].group :
           endMs(finalSubtitles[k]) = endMs(targetSubs[p])
      /\ finalSubtitles[k].text = NativeTextFrom(decisions[k].trigger, 1)

(***************************************************************************)
(* C8.  A cue handled with no unknown word is emitted with its start, end  *)
(* and text unchanged and is marked consumed; it stands for itself alone,  *)
(* and every call of the translation collaborator belongs to a cue of the  *)
(* single-unknown-word path, so none is made for it.                       *)
(***************************************************************************)
C8_KeptUnchanged ==
  /\ \A k \in Decided :
       decisions[k].unknown = 0 =>
         /\ decisions[k].kind = "Kept"
         /\ decisions[k].group = {decisions[k].trigger}
         /\ finalSubtitles[k] = targetSubs[decisions[k].trigger]
         /\ targetSubs[decisions[k].trigger].index \in processedTargetIndices
         /\ pc = "done" =>
              /\ hybrid[k].start = targetSubs[decisions[k].trigger].start
              /\ hybrid[k].end = targetSubs[decisions[k].trigger].end
              /\ hybrid[k].text = targetSubs[decisions[k].trigger].text
  /\ translateCalls = CountKinds(TranslateKinds) + (IF pc = "await" THEN 1 ELSE 0)
  /\ \A k \in Decided : decisions[k].kind \in TranslateKinds => decisions[k].unknown = 1

C8_Witness ==
  /\ pc = "done"
  /\ enableInlineTranslation /\ deeplAPI
  /\ \E k \in Decided :
       /\ decisions[k].unknown = 0
       /\ NativeOver(decisions[k].trigger) # {}
       /\ targetSubs[decisions[k].trigger].text = TextK

(***************************************************************************)
(* C9.  A cue with more than one unknown word, or with one unknown word in *)
(* a run where inline translation is disabled or no translation            *)
(* collaborator is supplied, takes the multi-cue replace path; in such a   *)
(* run the translation collaborator is never called.                       *)
(***************************************************************************)
C9_MultiPathAndNoCalls ==
  /\ \A k \in Decided :
       (\/ decisions[k].unknown > 1
        \/ decisions[k].unknown = 1 /\ ~(enableInlineTranslation /\ deeplAPI)) =>
         decisions[k].kind \in MultiKinds
  /\ ~(enableInlineTranslation /\ deeplAPI) =>
       /\ translateCalls = 0
       /\ pc # "await"
       /\ CountKinds(TranslateKinds) = 0

C9_Witness ==
  /\ enableInlineTranslation /\ ~deeplAPI
  /\ \E k \in Decided : decisions[k].unknown = 1 /\ decisions[k].kind = "Replaced"
  /\ \E k \in Decided : decisions[k].unknown = 2 /\ decisions[k].kind = "Replaced"

(***************************************************************************)
(* C10.  In the multi-cue replace path, when no native cue overlaps the    *)
(* triggering cue by more than 500 ms, the triggering cue is emitted       *)
(* unchanged and it alone is consumed by the step; the index strings       *)
(* marked are those of the cues consumed, and replacedCount counts the     *)
(* cues consumed by replacements only.                                     *)
(***************************************************************************)
RECURSIVE ReplacedBy(_)
ReplacedBy(k) ==
  IF k = 0 THEN 0
  ELSE ReplacedBy(k - 1)
         + (IF decisions[k].kind \in {"Replaced", "ReplacedAfterError"}
            THEN Cardinality(decisions[k].group) ELSE 0)

C10_KeptWithoutNative ==
  /\ \A k \in Decided :
       (TookMultiPath(decisions[k]) /\ NativeOver(decisions[k].trigger) = {}) =>
         /\ decisions[k].kind = "KeptNoNative"
         /\ finalSubtitles[k] = targetSubs[decisions[k].trigger]
         /\ decisions[k].group = {decisions[k].trigger}
  /\ processedTargetIndices = MarkedBy(Len(decisions))
  /\ replacedCount = ReplacedBy(Len(decisions))

C10_Witness ==
  \E k \in Decided :
    /\ decisions[k].kind = "KeptNoNative"
    /\ \E n \in DOMAIN nativeSubs :
         SharedMs(targetSubs[decisions[k].trigger], nativeSubs[n]) = 300
    /\ replacedCount > 0
    /\ Len(decisions) = Len(targetSubs)


(***************************************************************************)
(* Definitions the properties of the merger share.                         *)
(***************************************************************************)
\* how many lines of the output are the line of the input cue at position p
Occurrences(p) ==
  Cardinality({kl \in {<<k, l>> : k \in DOMAIN merged, l \in 1..MaxMerge} :
                 /\ kl[2] \in DOMAIN merged[kl[1]].text
                 /\ merged[kl[1]].text[kl[2]] = subtitles[p].text[1]})

\* the input cues at positions p and q went into the same output cue
SameGroup(p, q) ==
  \E k \in DOMAIN merged :
    /\ subtitles[p].text[1] \in Range(merged[k].text)
    /\ subtitles[q].text[1] \in Range(merged[k].text)

\* the positions a chain of edges links to a position of S
RECURSIVE Linked(_, _)
Linked(edges, S) ==
  LET T == S \cup {q \in DOMAIN subtitles : \E p \in S : <<p, q>> \in edges}
  IN  IF T = S THEN S ELSE Linked(edges, T)

\* the pairs of input cues that share more than 500 ms
Edges500 ==
  {pq \in (DOMAIN subtitles) \X (DOMAIN subtitles) :
     Overlaps500(subtitles[pq[1]], subtitles[pq[2]])}

\* the pairs of input cues of which each starts before the other ends
EdgesAny ==
  {pq \in (DOMAIN subtitles) \X (DOMAIN subtitles) :
     /\ startMs(subtitles[pq[1]]) < endMs(subtitles[pq[2]])
     /\ startMs(subtitles[pq[2]]) < endMs(subtitles[pq[1]])}

(***************************************************************************)
(* C4.  The merger partitions its input: the line of every input cue is a  *)
(* line of exactly one output cue, exactly once, every input cue is a      *)
(* member of exactly one group, and there are no more output cues than     *)
(* input cues.                                                             *)
(***************************************************************************)
C4_Partition ==
  mpc = "done" =>
    /\ Len(merged) <= Len(subtitles)
    /\ \A p \in DOMAIN subtitles :
         /\ Occurrences(p) = 1
         /\ Cardinality({k \in DOMAIN mergedGroups : p \in Range(mergedGroups[k])}) = 1

C4_Witness ==
  /\ mpc = "done"
  /\ Len(subtitles) = 3
  /\ Len(merged) = 2

(***************************************************************************)
(* C5, as claimed.  Two input cues end in the same output cue if and only  *)
(* if a chain of cues links them in which each consecutive pair shares     *)
(* more than 500 ms.                                                       *)
(***************************************************************************)
C5_Components500 ==
  mpc = "done" =>
    \A p, q \in DOMAIN subtitles : SameGroup(p, q) <=> q \in Linked(Edges500, {p})

(***************************************************************************)
(* C5, amended.  Two input cues end in the same output cue if and only if  *)
(* a chain of cues links them in which, of each consecutive pair, each cue *)
(* starts before the other ends.                                           *)
(***************************************************************************)
C5_ComponentsAny ==
  mpc = "done" =>
    \A p, q \in DOMAIN subtitles : SameGroup(p, q) <=> q \in Linked(EdgesAny, {p})

C5_Witness ==
  /\ mpc = "done"
  /\ Len(subtitles) = 3
  /\ Len(merged) = 1
  /\ <<1, 2>> \notin EdgesAny
  /\ <<1, 2>> \notin Edges500
  /\ <<2, 3>> \in EdgesAny
  /\ <<2, 3>> \notin Edges500

(***************************************************************************)
(* C6.  Every output cue of the merger starts at the least start and ends  *)
(* at the greatest end of the members of its group.                        *)
(***************************************************************************)
C6_MergedSpan ==
  \A k \in DOMAIN merged :
    k \in DOMAIN mergedGroups =>
      /\ \A p \in Range(mergedGroups[k]) :
           /\ startMs(merged[k]) <= startMs(subtitles[p])
           /\ endMs(merged[k]) >= endMs(subtitles[p])
      /\ \E p \in Range(mergedGroups[k]) : startMs(merged[k]) = startMs(subtitles[p])
      /\ \E p \in Range(mergedGroups[k]) : endMs(merged[k]) = endMs(subtitles[p])

(***************************************************************************)
(* C7.  hasIntersection is true if and only if the least of the two ends   *)
(* minus the greatest of the two starts is more than 500 ms.               *)
(***************************************************************************)
C7_OverlapThreshold ==
  overlapPc = "done" =>
    (overlapResult <=>
       (IF overlapArgs[2] < overlapArgs[4] THEN overlapArgs[2] ELSE overlapArgs[4])
         - (IF overlapArgs[1] > overlapArgs[3] THEN overlapArgs[1] ELSE overlapArgs[3])
         > 500)

C7_Witness ==
  /\ overlapPc = "done"
  /\ overlapArgs = <<0, 600, 100, 601>>
  /\ ~overlapResult

(***************************************************************************)
(* Definitions the properties on texts share.                              *)
(***************************************************************************)
\* the spellings of the words of the target texts and of their lemmas
Spellings ==
  UNION {{word.s, LemmaOf(word.s)} : word \in UNION {Range(TextWords(t)) : t \in TargetTexts}}

\* the tokens " (<translation>)" that an inline translation may add
InParentheses == {W("(" \o x \o ")", FALSE) : x \in Spellings}

\* the tokens of a text that come before token j of line l
TokensBefore(text, l, j) ==
  UNION {Range(text[m]) : m \in 1..(l - 1)} \cup {text[l][n] : n \in 1..(j - 1)}

\* the texts that show a translation inline: the text with a translation
\* in parentheses put right after a word, at the first place where the word
\* stands in the text, letter case ignored
InlineForms(text) ==
  {[text EXCEPT ![l] = SubSeq(text[l], 1, j) \o <<tr>>
                         \o SubSeq(text[l], j + 1, Len(text[l]))] :
     <<l, j, tr>> \in
       {x \in (DOMAIN text) \X (1..4) \X InParentheses :
          /\ x[2] \in DOMAIN text[x[1]]
          /\ text[x[1]][x[2]].s \notin PunctuationSpellings
          /\ \A word \in TokensBefore(text, x[1], x[2]) :
               word.s # text[x[1]][x[2]].s}}

(***************************************************************************)
(* C11.  A cue emitted after a translation that succeeded has the start    *)
(* and the end of the target cue, and its text is the text of the target   *)
(* cue with "(<translation>)" inserted right after the first whole-word    *)
(* match of the unknown word; so every cue counted in                      *)
(* inlineTranslationCount shows a translation.                             *)
(***************************************************************************)
C11_TranslationShown ==
  /\ inlineTranslationCount = CountKinds({"TranslatedInline"})
  /\ \A k \in Decided :
       decisions[k].kind = "TranslatedInline" =>
         /\ finalSubtitles[k].start = targetSubs[decisions[k].trigger].start
         /\ finalSubtitles[k].end = targetSubs[decisions[k].trigger].end
         /\ finalSubtitles[k].text \in InlineForms(targetSubs[decisions[k].trigger].text)

(***************************************************************************)
(* C12.  When the translation of the one unknown word of a cue fails, the  *)
(* cue alone is handled: if a native cue overlaps it by more than 500 ms,  *)
(* one replacement cue is emitted with the start and the end of the cue    *)
(* and the texts of the overlapping native cues joined in track order;     *)
(* otherwise the cue is emitted unchanged.  Only the index string of the   *)
(* cue is marked, and errorCount counts one for each such failure.         *)
(***************************************************************************)
C12_FallbackAfterError ==
  /\ \A k \in Decided :
       decisions[k].kind \in {"ReplacedAfterError", "KeptAfterError"} =>
         /\ decisions[k].unknown = 1
         /\ decisions[k].group = {decisions[k].trigger}
         /\ IF NativeOver(decisions[k].trigger) # {}
            THEN finalSubtitles[k] =
                   [index |-> "",
                    start |-> targetSubs[decisions[k].trigger].start,
                    end |-> targetSubs[decisions[k].trigger].end,
                    text |-> NativeTextFrom(decisions[k].trigger, 1)]
            ELSE finalSubtitles[k] = targetSubs[decisions[k].trigger]
  /\ errorCount = CountKinds({"ReplacedAfterError", "KeptAfterError"})
  /\ translateCalls = CountKinds(TranslateKinds) + (IF pc = "await" THEN 1 ELSE 0)
  /\ processedTargetIndices = MarkedBy(Len(decisions))

\* a failed translation was answered by a replacement cue whose native cues
\* span more than the cue, and another by the cue unchanged
C12_Witness ==
  /\ \E k \in Decided :
       /\ decisions[k].kind = "ReplacedAfterError"
       /\ NativeSpan(decisions[k].trigger).end # targetSubs[decisions[k].trigger].end
  /\ \E k \in Decided : decisions[k].kind = "KeptAfterError"
  /\ errorCount = 2

(***************************************************************************)
(* C13.  The unknown count U of a cue is the number of the lemma positions *)
(* whose lemma is not known, whose paired word of the text is not a proper *)
(* noun and whose lemma is not a number.  The numbers and the proper nouns *)
(* of the text do not raise U: U is at most the number of the words of the *)
(* text that are neither, and whose lemma is not known.  The word sent to  *)
(* the translation collaborator is never a number nor a proper noun of the *)
(* text.                                                                   *)
(***************************************************************************)
\* the position of the first token of the text with a letter or a digit
FirstWordAt(tokens) ==
  LeastOf({j \in DOMAIN tokens : tokens[j].s \notin PunctuationSpellings})

\* token j of the text is a proper noun: capitalized, and either not the
\* first word of the sentence or not a known word in lower case
ProperNounAt(tokens, j) ==
  /\ tokens[j].s \notin PunctuationSpellings
  /\ tokens[j].cap
  /\ j # FirstWordAt(tokens) \/ tokens[j].s \notin KnownWords

NumericAt(tokens, j) == tokens[j].s \in NumericSpellings

\* the words of the text that can count as unknown
Countable(tokens) ==
  {j \in DOMAIN tokens :
     /\ tokens[j].s \notin PunctuationSpellings
     /\ ~ProperNounAt(tokens, j)
     /\ ~NumericAt(tokens, j)
     /\ LemmaOf(tokens[j].s) \notin KnownWords}

\* the count of the claim for one answer of the lemmatizer: the lemma is
\* paired with the token of the text at the same position
CountFor(lemmas, tokens, text) ==
  Cardinality({j \in DOMAIN lemmas :
     /\ ~isWordKnown(lemmas[j], KnownWords, Language)
     /\ ~isProperNoun(IF j \in DOMAIN tokens THEN tokens[j] ELSE lemmas[j],
                      text, KnownWords)
     /\ lemmas[j].s \notin NumericSpellings})

C13_UnknownCount ==
  /\ \A k \in Decided :
       LET text == targetSubs[decisions[k].trigger].text
       IN  /\ \E lemmas \in LemmatizerOutputs(normalizeWords(text)) :
                decisions[k].unknown = CountFor(lemmas, TextWords(text), text)
           /\ decisions[k].unknown <= Cardinality(Countable(TextWords(text)))
  /\ pc = "await" =>
       LET tokens == TextWords(targetSubs[i].text)
       IN  \A j \in DOMAIN tokens :
             (ProperNounAt(tokens, j) \/ NumericAt(tokens, j)) =>
               pending[1].s # LemmaOf(tokens[j].s)

(***************************************************************************)
(* C14.  For the language 'en' and a contraction of the table, in lower    *)
(* case or capitalized, that is not itself a known word, isWordKnown is    *)
(* true if and only if every word of its expansion is known.  For another  *)
(* language isWordKnown is true if and only if the word in lower case is   *)
(* known.                                                                  *)
(***************************************************************************)
\* the table as the specification reads it: the contractions in lower case
\* and the words of their expansions
ExpansionOf(x) ==
  CASE x = "don't" -> {"do", "not"}
    [] x = "i'm" -> {"i", "am"}
    [] OTHER -> {}

C14_ContractionKnown ==
  wordPc = "known" =>
    /\ (/\ wordArgs.language = "en"
        /\ ExpansionOf(wordArgs.word.s) # {}
        /\ wordArgs.word.s \notin wordArgs.knownWords)
         => (wordResult <=> ExpansionOf(wordArgs.word.s) \subseteq wordArgs.knownWords)
    /\ wordArgs.language # "en"
         => (wordResult <=> wordArgs.word.s \in wordArgs.knownWords)

(***************************************************************************)
(* C15.  isProperNoun is false for a word that is not capitalized; for a   *)
(* capitalized word that is the first word of the sentence it is true if   *)
(* and only if the word in lower case is not in the known set; for a       *)
(* capitalized word that is not the first word it is true.                 *)
(***************************************************************************)
C15_ProperNounRule ==
  wordPc = "proper" =>
    LET tokens == TextWords(wordArgs.sentence)
        words == {j \in DOMAIN tokens : tokens[j].s \notin PunctuationSpellings}
        first == words # {} /\ wordArgs.word = tokens[LeastOf(words)]
    IN  IF wordArgs.word.s \in PunctuationSpellings \/ ~wordArgs.word.cap
        THEN wordResult = FALSE
        ELSE IF first
             THEN wordResult <=> wordArgs.word.s \notin wordArgs.knownWords
             ELSE wordResult = TRUE

(***************************************************************************)
(* C16.  The cues of the returned sequence are the emitted cues in the     *)
(* order of their emission, and the display index of the k-th is the       *)
(* decimal numeral of k, whatever index string the emitted cue had.        *)
(***************************************************************************)
DecimalDigits == <<"0", "1", "2", "3", "4", "5", "6", "7", "8", "9">>

RECURSIVE Decimal(_)
Decimal(n) ==
  IF n < 10 THEN DecimalDigits[n + 1]
  ELSE Decimal(n \div 10) \o DecimalDigits[(n % 10) + 1]

C16_Reindexed ==
  pc = "done" =>
    /\ Len(hybrid) = Len(finalSubtitles)
    /\ \A k \in DOMAIN hybrid :
         /\ hybrid[k].index = Decimal(k)
         /\ hybrid[k].start = finalSubtitles[k].start
         /\ hybrid[k].end = finalSubtitles[k].end
         /\ hybrid[k].text = finalSubtitles[k].text

\* a replacement cue, emitted with the empty index, then a cue that the
\* input numbers 3: they are returned as 1 and 2
C16_Witness ==
  /\ pc = "done"
  /\ Len(hybrid) = 2
  /\ finalSubtitles[1].index = ""
  /\ finalSubtitles[2].index = "3"
  /\ hybrid[1].index = "1"
  /\ hybrid[2].index = "2"

(***************************************************************************)
(* C17.  The returned sequence has one cue for each emitted group, a       *)
(* group being a cue emitted alone or the cues that one replacement cue    *)
(* stands for; the groups are not empty and no target cue is in two of     *)
(* them, so the returned sequence has at most as many cues as the target   *)
(* track.                                                                  *)
(***************************************************************************)
EmittedGroups == {decisions[k].group : k \in Decided}

C17_CueCount ==
  pc = "done" =>
    /\ Len(hybrid) <= Len(targetSubs)
    /\ Len(hybrid) = Cardinality(EmittedGroups)
    /\ \A k \in Decided :
         /\ decisions[k].group # {}
         /\ decisions[k].group \subseteq DOMAIN targetSubs
         /\ \A j \in Decided : j # k => decisions[j].group \cap decisions[k].group = {}

\* two target cues returned as one replacement cue
C17_Witness ==
  /\ pc = "done"
  /\ Len(targetSubs) = 2
  /\ Len(hybrid) = 1
  /\ decisions[1].group = {1, 2}

Covers(a, b) == startMs(a) <= startMs(b) /\ endMs(b) <= endMs(a)

C19_CoverageOnce ==
  (/\ pc = "done"
   /\ IsMergedTrack(targetSubs) /\ IsChronological(targetSubs)
   /\ IsMergedTrack(nativeSubs) /\ IsChronological(nativeSubs)) =>
    \A j, k \in DOMAIN hybrid :
      j # k =>
        /\ ~Overlaps500(hybrid[j], hybrid[k])
        /\ decisions[j].kind \in {"Replaced", "ReplacedAfterError"}
             => ~Covers(hybrid[j], hybrid[k])

(***************************************************************************)
(* C20.  The index strings of the input decide nothing: two runs on target *)
(* tracks that differ only in their index strings return the same cues and *)
(* the same counters.  The index strings are read in one place, the test   *)
(* of the processed cues; the runs are the same if and only if that test   *)
(* answers as the test on positions does, that is, if a cue is taken for   *)
(* processed exactly when it was itself emitted or folded into a group.    *)
(***************************************************************************)
C20_IndexFree ==
  \A p \in DOMAIN targetSubs :
    targetSubs[p].index \in processedTargetIndices
      <=> p \in ConsumedBy(Len(decisions))

\* A call of fuseSubtitles or a call of mergeOverlappingSubtitles.
InitEither == Init \/ InitMerge

NextEither == Next \/ NextMerge

SpecEither == InitEither /\ [][NextEither]_vars

\* A call of fuseSubtitles or a call of hasIntersection.
InitFuseOrOverlap == Init \/ InitOverlap

NextFuseOrOverlap == Next \/ NextOverlap

SpecFuseOrOverlap == InitFuseOrOverlap /\ [][NextFuseOrOverlap]_vars

(***************************************************************************)
(* The DeepLAPI class.  Strings are strings; an optional string is <<>>    *)
(* when it is undefined and <<string>> otherwise.  Time is in              *)
(* milliseconds.                                                           *)
(***************************************************************************)
MaxCalls == 2
MaxElapse == 2

CACHE_DURATION == 24 * 60 * 60 * 1000

\* value || fallback for a number: 0 and undefined, modelled alike as 0,
\* give the fallback
OrDefault(value, fallback) == IF value = 0 THEN fallback ELSE value

\* the constructor's this.config, given the maxRetries of its argument
DeepLConfig(maxRetries) ==
  [timeout |-> OrDefault(0, 5000),
   maxRetries |-> OrDefault(maxRetries, 3),
   retryDelay |-> OrDefault(0, 1000),
   rateLimitDelay |-> OrDefault(0, 500)]

\* the time the object is constructed at
Epoch == CACHE_DURATION

HalfDay == 12 * 60 * 60 * 1000

\* context || ''
ContextOrEmpty(context) ==
  IF context = <<>> \/ context = <<"">> THEN "" ELSE context[1]

getCacheKey(text, sourceLang, targetLang, context) ==
  text \o "|" \o sourceLang \o "|" \o targetLang \o "|" \o ContextOrEmpty(context)

\* a variant of isCacheValid that still accepts an entry of CACHE_DURATION
isCacheValidAtLimit(timestamp) == now - timestamp <= CACHE_DURATION

isCacheValid(timestamp) == now - timestamp < CACHE_DURATION

\* the arguments the calls of translateWord are drawn from
TranslateArgs ==
  {[word |-> "hello", sourceLang |-> "en", targetLang |-> "fr", context |-> <<>>],
   [word |-> "hello", sourceLang |-> "en", targetLang |-> "fr", context |-> <<"">>],
   [word |-> "hello", sourceLang |-> "EN", targetLang |-> "fr", context |-> <<>>],
   [word |-> "bank", sourceLang |-> "en", targetLang |-> "fr",
    context |-> <<"The bank was closed.">>],
   [word |-> "a", sourceLang |-> "en", targetLang |-> "fr", context |-> <<"de|x">>],
   [word |-> "a|en", sourceLang |-> "fr", targetLang |-> "de", context |-> <<"x">>]}

\* response.translations[0]?.text: undefined when the list is empty
ResponseTexts == {<<>>, <<"">>, <<"bonjour">>, <<"salut">>}

InitDeepL ==
  /\ config \in {DeepLConfig(maxRetries) : maxRetries \in 0..1}
  /\ cache = <<>>
  /\ requestCount = 0
  /\ lastRequestTime = 0
  /\ now = Epoch
  /\ deeplPc = "idle"
  /\ call = NoCall
  /\ retryCount = 0
  /\ calls = <<>>
  /\ FuseIdle
  /\ MergeIdle
  /\ OverlapIdle
  /\ WordIdle
  /\ TimeIdle

\* the record of a call that is over
Returned(outcome, translation, timestamp, requests) ==
  [word |-> call.word, sourceLang |-> call.sourceLang,
   targetLang |-> call.targetLang, context |-> call.context,
   start |-> call.start, outcome |-> outcome, translation |-> translation,
   timestamp |-> timestamp, requests |-> requests - call.requests,
   attempts |-> call.attempts, waits |-> call.waits,
   timeouts |-> IF outcome = "timed out" THEN call.timeouts + 1 ELSE call.timeouts]

\* time passes between two calls
Elapse ==
  /\ deeplPc = "idle"
  /\ now < Epoch + MaxElapse * HalfDay
  /\ now' = now + HalfDay
  /\ UNCHANGED <<config, cache, requestCount, lastRequestTime, deeplPc, call,
                 retryCount, calls>>
  /\ UNCHANGED <<fuseVars, mergeVars, overlapVars, wordVars, timeVars>>

\* translateWord, the entry of the key is there and valid: it is returned
TranslateWordCached ==
  /\ deeplPc = "idle"
  /\ Len(calls) < MaxCalls
  /\ \E args \in TranslateArgs :
       LET cacheKey == getCacheKey(args.word, args.sourceLang, args.targetLang, args.context)
       IN  /\ cacheKey \in DOMAIN cache
           /\ isCacheValid(cache[cacheKey].timestamp)
           /\ calls' = Append(calls,
                [word |-> args.word, sourceLang |-> args.sourceLang,
                 targetLang |-> args.targetLang, context |-> args.context,
                 start |-> now, outcome |-> "cached",
                 translation |-> cache[cacheKey].translation,
                 timestamp |-> cache[cacheKey].timestamp, requests |-> 0,
                 attempts |-> 0, waits |-> <<>>, timeouts |-> 0])
  /\ UNCHANGED <<config, cache, requestCount, lastRequestTime, now, deeplPc, call,
                 retryCount>>
  /\ UNCHANGED <<fuseVars, mergeVars, overlapVars, wordVars, timeVars>>

\* translateWord, no valid entry: makeRequest is called with retryCount = 0
TranslateWordRequest ==
  /\ deeplPc = "idle"
  /\ Len(calls) < MaxCalls
  /\ \E args \in TranslateArgs :
       LET cacheKey == getCacheKey(args.word, args.sourceLang, args.targetLang, args.context)
       IN  /\ ~(cacheKey \in DOMAIN cache /\ isCacheValid(cache[cacheKey].timestamp))
           /\ call' = [word |-> args.word, sourceLang |-> args.sourceLang,
                       targetLang |-> args.targetLang, context |-> args.context,
                       start |-> now, requests |-> requestCount, attempts |-> 0,
                       waits |-> <<>>, timeouts |-> 0]
  /\ retryCount' = 0
  /\ deeplPc' = "makeRequest"
  /\ UNCHANGED <<config, cache, requestCount, lastRequestTime, now, calls>>
  /\ UNCHANGED <<fuseVars, mergeVars, overlapVars, wordVars, timeVars>>

\* makeRequest up to fetch: the rate limit is waited for and the request sent
MakeRequest ==
  /\ deeplPc = "makeRequest"
  /\ LET timeSinceLastRequest == now - lastRequestTime
     IN  now' = IF timeSinceLastRequest < config.rateLimitDelay
                THEN now + (config.rateLimitDelay - timeSinceLastRequest)
                ELSE now
  /\ call' = [call EXCEPT !.attempts = @ + 1]
  /\ deeplPc' = "fetch"
  /\ UNCHANGED <<config, cache, requestCount, lastRequestTime, retryCount, calls>>
  /\ UNCHANGED <<fuseVars, mergeVars, overlapVars, wordVars, timeVars>>

\* the response is ok: the translation is cached and returned
FetchOk ==
  /\ deeplPc = "fetch"
  /\ \E text \in ResponseTexts :
       LET translation == IF text = <<>> \/ text = <<"">> THEN call.word ELSE text[1]
           cacheKey == getCacheKey(call.word, call.sourceLang, call.targetLang, call.context)
       IN  /\ cache' = (cacheKey :> [translation |-> translation, timestamp |-> now])
                         @@ cache
           /\ calls' = Append(calls, Returned("ok", translation, now, requestCount + 1))
  /\ lastRequestTime' = now
  /\ requestCount' = requestCount + 1
  /\ deeplPc' = "idle"
  /\ call' = NoCall
  /\ retryCount' = 0
  /\ UNCHANGED <<config, now>>
  /\ UNCHANGED <<fuseVars, mergeVars, overlapVars, wordVars, timeVars>>

\* a variant of FetchTimeout that takes the timeout for one more failure:
\* the request is sent again while retries are left
FetchTimeoutRetried ==
  /\ deeplPc = "fetch"
  /\ IF retryCount < config.maxRetries
     THEN /\ now' = now + config.timeout + config.retryDelay * 2 ^ retryCount
          /\ call' = [call EXCEPT !.timeouts = @ + 1,
                                  !.waits = Append(@, config.retryDelay * 2 ^ retryCount)]
          /\ retryCount' = retryCount + 1
          /\ deeplPc' = "makeRequest"
          /\ UNCHANGED calls
     ELSE /\ now' = now + config.timeout
          /\ calls' = Append(calls, Returned("timed out", "", 0, requestCount))
          /\ deeplPc' = "idle"
          /\ call' = NoCall
          /\ retryCount' = 0
  /\ UNCHANGED <<config, cache, requestCount, lastRequestTime>>
  /\ UNCHANGED <<fuseVars, mergeVars, overlapVars, wordVars, timeVars>>

\* the request is aborted after config.timeout: 'DeepL API request timed out'
\* is thrown, whatever retryCount is
FetchTimeout ==
  /\ deeplPc = "fetch"
  /\ now' = now + config.timeout
  /\ calls' = Append(calls, Returned("timed out", "", 0, requestCount))
  /\ deeplPc' = "idle"
  /\ call' = NoCall
  /\ retryCount' = 0
  /\ UNCHANGED <<config, cache, requestCount, lastRequestTime>>
  /\ UNCHANGED <<fuseVars, mergeVars, overlapVars, wordVars, timeVars>>

\* a variant of FetchFailRetry whose wait grows by retryDelay with every
\* retry
FetchFailRetryLinear ==
  /\ deeplPc = "fetch"
  /\ retryCount < config.maxRetries
  /\ \E answered \in BOOLEAN :
       /\ lastRequestTime' = IF answered THEN now ELSE lastRequestTime
       /\ requestCount' = IF answered THEN requestCount + 1 ELSE requestCount
  /\ now' = now + config.retryDelay * (retryCount + 1)
  /\ call' = [call EXCEPT !.waits = Append(@, config.retryDelay * (retryCount + 1))]
  /\ retryCount' = retryCount + 1
  /\ deeplPc' = "makeRequest"
  /\ UNCHANGED <<config, cache, calls>>
  /\ UNCHANGED <<fuseVars, mergeVars, overlapVars, wordVars, timeVars>>

\* the attempt fails, by a response that is not ok (answered) or by a
\* rejected fetch, and retries are left: makeRequest is called again after
\* retryDelay * 2^retryCount
FetchFailRetry ==
  /\ deeplPc = "fetch"
  /\ retryCount < config.maxRetries
  /\ \E answered \in BOOLEAN :
       /\ lastRequestTime' = IF answered THEN now ELSE lastRequestTime
       /\ requestCount' = IF answered THEN requestCount + 1 ELSE requestCount
  /\ now' = now + config.retryDelay * 2 ^ retryCount
  /\ call' = [call EXCEPT !.waits = Append(@, config.retryDelay * 2 ^ retryCount)]
  /\ retryCount' = retryCount + 1
  /\ deeplPc' = "makeRequest"
  /\ UNCHANGED <<config, cache, calls>>
  /\ UNCHANGED <<fuseVars, mergeVars, overlapVars, wordVars, timeVars>>

\* a variant of FetchFailThrow that caches the word as its own translation
\* before it throws
FetchFailThrowCaching ==
  /\ deeplPc = "fetch"
  /\ ~(retryCount < config.maxRetries)
  /\ \E answered \in BOOLEAN :
       /\ lastRequestTime' = IF answered THEN now ELSE lastRequestTime
       /\ requestCount' = IF answered THEN requestCount + 1 ELSE requestCount
       /\ calls' = Append(calls, Returned("failed", "", 0,
                                          IF answered THEN requestCount + 1 ELSE requestCount))
  /\ cache' = (getCacheKey(call.word, call.sourceLang, call.targetLang, call.context)
                :> [translation |-> call.word, timestamp |-> now]) @@ cache
  /\ deeplPc' = "idle"
  /\ call' = NoCall
  /\ retryCount' = 0
  /\ UNCHANGED <<config, now>>
  /\ UNCHANGED <<fuseVars, mergeVars, overlapVars, wordVars, timeVars>>

\* the attempt fails and no retry is left: the error is thrown
FetchFailThrow ==
  /\ deeplPc = "fetch"
  /\ ~(retryCount < config.maxRetries)
  /\ \E answered \in BOOLEAN :
       /\ lastRequestTime' = IF answered THEN now ELSE lastRequestTime
       /\ requestCount' = IF answered THEN requestCount + 1 ELSE requestCount
       /\ calls' = Append(calls, Returned("failed", "", 0,
                                          IF answered THEN requestCount + 1 ELSE requestCount))
  /\ deeplPc' = "idle"
  /\ call' = NoCall
  /\ retryCount' = 0
  /\ UNCHANGED <<config, cache, now>>
  /\ UNCHANGED <<fuseVars, mergeVars, overlapVars, wordVars, timeVars>>

NextDeepL ==
  \/ Elapse
  \/ TranslateWordCached
  \/ TranslateWordRequest
  \/ MakeRequest
  \/ FetchOk
  \/ FetchTimeout
  \/ FetchFailRetry
  \/ FetchFailThrow

SpecDeepL == InitDeepL /\ [][NextDeepL]_vars

(***************************************************************************)
(* srtTimeToMs on any string.  The argument is undefined or a string; a    *)
(* string is given by the pieces that time.split(/[:,]/) cuts it into, and *)
(* a piece by its leading decimal digits and the text after them, which is *)
(* empty or begins with another character than a digit.                    *)
(***************************************************************************)
MaxParts == 5

\* the value of a sequence of decimal digits
RECURSIVE DigitsValue(_)
DigitsValue(digits) ==
  IF digits = <<>> THEN 0
  ELSE DigitsValue(SubSeq(digits, 1, Len(digits) - 1)) * 10 + digits[Len(digits)]

\* parseInt(piece, 10): the value of the leading digits, NaN (<<>>) when
\* there is none
parseInt(piece) ==
  IF piece.digits = <<>> THEN <<>> ELSE <<DigitsValue(piece.digits)>>

\* parts[k - 1] parsed: undefined, past the end of parts, parses to NaN
Part(parts, k) == IF k \in DOMAIN parts THEN parseInt(parts[k]) ELSE <<>>

\* h, m, s and ms of srtTimeToMs
TimeParts(parts) ==
  [h |-> Part(parts, 1), m |-> Part(parts, 2), s |-> Part(parts, 3),
   ms |-> Part(parts, 4)]

\* the pieces the arguments are made of: "", "7", "12", "7x" and "x"
Pieces ==
  {[digits |-> <<>>, rest |-> ""], [digits |-> <<7>>, rest |-> ""],
   [digits |-> <<1, 2>>, rest |-> ""], [digits |-> <<7>>, rest |-> "x"],
   [digits |-> <<>>, rest |-> "x"]}

TimeArgsOfLen(n) == [1..n -> Pieces]

InitTime ==
  /\ timePc = "call"
  /\ timeArg \in
       {[defined |-> FALSE, fields |-> <<>>]}
         \cup {[defined |-> TRUE, fields |-> fields] :
                 fields \in UNION {TimeArgsOfLen(n) : n \in 1..MaxParts}}
  /\ timeResult = 0
  /\ FuseIdle
  /\ MergeIdle
  /\ OverlapIdle
  /\ WordIdle
  /\ DeepLIdle

\* srtTimeToMs(time): split throws on undefined and the catch returns 0
SrtTimeToMsCall ==
  /\ timePc = "call"
  /\ timeResult' = IF timeArg.defined THEN srtTimeToMs(TimeParts(timeArg.fields))
                   ELSE 0
  /\ timePc' = "done"
  /\ UNCHANGED timeArg
  /\ UNCHANGED <<fuseVars, mergeVars, overlapVars, wordVars, deeplVars>>

NextTime == SrtTimeToMsCall

SpecTime == InitTime /\ [][NextTime]_vars

TouchOrDisjoint(p, q) ==
  \/ endMs(subtitles[p]) <= startMs(subtitles[q])
  \/ endMs(subtitles[q]) <= startMs(subtitles[p])

\* the pairs of distinct input cues that neither touch nor are disjoint
EdgesShared ==
  {pq \in (DOMAIN subtitles) \X (DOMAIN subtitles) :
     pq[1] # pq[2] /\ ~TouchOrDisjoint(pq[1], pq[2])}

(***************************************************************************)
(* C22.  The merger never fuses adjacent cues.  Two input cues that touch  *)
(* at a boundary or are disjoint are in the same output cue only if a      *)
(* chain of cues links them in which no consecutive pair is touching or    *)
(* disjoint; and a track whose cues are pairwise touching or disjoint is   *)
(* returned cue for cue.                                                   *)
(***************************************************************************)
C22_AdjacentNotFused ==
  mpc = "done" =>
    /\ \A p, q \in DOMAIN subtitles :
         (p # q /\ TouchOrDisjoint(p, q) /\ SameGroup(p, q))
           => q \in Linked(EdgesShared, {p})
    /\ (\A p, q \in DOMAIN subtitles : p # q => TouchOrDisjoint(p, q))
         => merged = subtitles

\* three cues, pairwise touching or disjoint, of which two of positive
\* length touch at a boundary, came out as three cues
C22_Witness ==
  /\ mpc = "done"
  /\ Len(subtitles) = 3
  /\ Len(merged) = 3
  /\ \A p, q \in DOMAIN subtitles : p # q => TouchOrDisjoint(p, q)
  /\ \E p, q \in DOMAIN subtitles :
       /\ startMs(subtitles[p]) < endMs(subtitles[p])
       /\ endMs(subtitles[p]) = startMs(subtitles[q])
       /\ startMs(subtitles[q]) < endMs(subtitles[q])

\* the calls j and k of the history had the same four arguments
SameArguments(j, k) ==
  /\ calls[j].word = calls[k].word
  /\ calls[j].sourceLang = calls[k].sourceLang
  /\ calls[j].targetLang = calls[k].targetLang
  /\ calls[j].context = calls[k].context

\* call k was answered without a request
ServedFromCache(k) ==
  /\ calls[k].outcome = "cached"
  /\ calls[k].requests = 0
  /\ calls[k].attempts = 0

\* a later call with the arguments of a successful call, made while the
\* entry of that call is younger than CACHE_DURATION, returns the same
\* translation and sends no request
C23_SameArgumentsServed ==
  \A j, k \in DOMAIN calls :
    (/\ j < k
     /\ SameArguments(j, k)
     /\ calls[j].outcome \in {"ok", "cached"}
     /\ calls[k].start - calls[j].timestamp < CACHE_DURATION)
    => (ServedFromCache(k) /\ calls[k].translation = calls[j].translation)

\* a call is served from the cache only by a successful call with the same
\* four arguments
C23_OtherArgumentsOtherEntry ==
  \A k \in DOMAIN calls :
    calls[k].outcome = "cached" =>
      \E j \in DOMAIN calls :
        j < k /\ SameArguments(j, k) /\ calls[j].outcome \in {"ok", "cached"}

(***************************************************************************)
(* C23.  translateWord caches successful results: a later call with the    *)
(* same four arguments, made while the entry is valid, returns the same    *)
(* translation and sends no request, and calls that differ in word,        *)
(* language or context use different entries: none is served with the      *)
(* entry of the other.                                                     *)
(***************************************************************************)
C23_CachedPerArguments ==
  C23_SameArgumentsServed /\ C23_OtherArgumentsOtherEntry

(***************************************************************************)
(* C24.  The cues are emitted in the order of the loop: every emitted cue  *)
(* after the first was emitted while handling a track position strictly    *)
(* greater than the position the cue before it was emitted at, no cue is   *)
(* emitted at a position the loop has not reached, and the returned cues   *)
(* are the emitted cues in the order of emission, whatever their times.    *)
(***************************************************************************)
C24_EmissionOrder ==
  /\ Len(decisions) = Len(finalSubtitles)
  /\ \A k \in DOMAIN decisions :
       /\ decisions[k].trigger <= i
       /\ k > 1 => decisions[k].trigger > decisions[k - 1].trigger
  /\ pc = "done" =>
       /\ Len(hybrid) = Len(finalSubtitles)
       /\ \A k \in DOMAIN hybrid :
            /\ hybrid[k].start = finalSubtitles[k].start
            /\ hybrid[k].end = finalSubtitles[k].end
            /\ hybrid[k].text = finalSubtitles[k].text

\* two cues were returned, emitted at the positions 1 and 2, of which the
\* second starts before the first
C24_Witness ==
  /\ pc = "done"
  /\ Len(hybrid) = 2
  /\ decisions[1].trigger = 1
  /\ decisions[2].trigger = 2
  /\ startMs(hybrid[2]) < startMs(hybrid[1])

\* a translation call is outstanding
Outstanding == pending # <<>>

(***************************************************************************)
(* C25.  The translation calls are serial.  At most one call is            *)
(* outstanding; a call is started only when none is outstanding; and while *)
(* a call is outstanding the consumed set, the emitted cues and the        *)
(* position of the loop do not change before the step that resolves the    *)
(* call or sees it fail.                                                   *)
(***************************************************************************)
C25_SerialCalls ==
  [][/\ Len(pending') <= 1
     /\ translateCalls' # translateCalls =>
          (~Outstanding /\ Outstanding' /\ translateCalls' = translateCalls + 1)
     /\ (Outstanding /\ Outstanding') =>
          UNCHANGED <<processedTargetIndices, finalSubtitles, i, pending>>
     /\ Outstanding' =>
          UNCHANGED <<processedTargetIndices, finalSubtitles, i>>]_vars

\* two calls were made in one run, one after the other was resolved
C25_Witness ==
  /\ translateCalls = 2
  /\ Len(finalSubtitles) = 2
  /\ ~Outstanding

\* the answers of the lemmatizer for the line of the cue at position p all
\* are empty or of another length than the whitespace tokens of the cue
Misaligned(p) ==
  \A lemmatizedWords \in LemmatizerOutputs(normalizeWords(targetSubs[p].text)) :
    \/ lemmatizedWords = <<>>
    \/ Len(lemmatizedWords) # Len(TextWords(targetSubs[p].text))

(***************************************************************************)
(* C26.  A cue for whose line the lemmatizer gives no lemmas, or a number  *)
(* of lemmas that differs from the number of whitespace tokens of the cue, *)
(* is emitted unchanged as Kept and marked consumed, and the run goes on   *)
(* to the next position.                                                   *)
(***************************************************************************)
C26_KeptWhenMisaligned ==
  \A k \in DOMAIN decisions :
    Misaligned(decisions[k].trigger) =>
      /\ finalSubtitles[k] = targetSubs[decisions[k].trigger]
      /\ decisions[k].group = {decisions[k].trigger}
      /\ targetSubs[decisions[k].trigger].index \in processedTargetIndices
      /\ i > decisions[k].trigger

\* the input cue at position p comes before the one at position q in
\* chronological order: it starts earlier, or at the same time and is
\* earlier in the input
ComesBefore(p, q) ==
  \/ startMs(subtitles[p]) < startMs(subtitles[q])
  \/ startMs(subtitles[p]) = startMs(subtitles[q]) /\ p < q

\* the positions of S in chronological order
RECURSIVE Chronological(_)
Chronological(S) ==
  IF S = {} THEN <<>>
  ELSE LET first == CHOOSE p \in S : \A q \in S \ {p} : ComesBefore(p, q)
       IN  <<first>> \o Chronological(S \ {first})

(***************************************************************************)
(* C27.  The text of every output cue of the merger is the concatenation   *)
(* of the texts of the members of its group in chronological order: by     *)
(* non-decreasing start, members of equal start in the order of the input. *)
(***************************************************************************)
C27_TextChronological ==
  mpc = "done" =>
    \A k \in DOMAIN merged :
      LET group == Chronological(Range(mergedGroups[k]))
      IN  merged[k].text = Flatten([n \in DOMAIN group |-> subtitles[group[n]].text])

\* the native positions of S by start time, positions of equal start in
\* track order
RECURSIVE NativeChronological(_)
NativeChronological(S) ==
  IF S = {} THEN <<>>
  ELSE LET first == CHOOSE n \in S : \A o \in S \ {n} :
                      \/ startMs(nativeSubs[n]) < startMs(nativeSubs[o])
                      \/ startMs(nativeSubs[n]) = startMs(nativeSubs[o]) /\ n < o
       IN  <<first>> \o NativeChronological(S \ {first})

\* the texts of the native cues that overlap the target cue at position p,
\* joined in chronological order
NativeTextChronological(p) ==
  LET order == NativeChronological(NativeOver(p))
  IN  Flatten([n \in DOMAIN order |-> nativeSubs[order[n]].text])

\* whether the cue overlaps, by more than 500 ms, the interval from the
\* earliest start to the latest end of the native cues that overlap the
\* target cue at position p
OverlapsNativeHull(p, sub) ==
  LET least == LeastOf({startMs(nativeSubs[n]) : n \in NativeOver(p)})
      greatest == GreatestOf({endMs(nativeSubs[n]) : n \in NativeOver(p)})
  IN  Min(greatest, endMs(sub)) - Max(least, startMs(sub)) > 500

(***************************************************************************)
(* C28.  In both replace paths the text of the replacement cue is the      *)
(* concatenation of the texts of exactly the native cues that overlap the  *)
(* triggering cue, in chronological order of their starts; and in the      *)
(* multi-cue path the targets are scanned against the interval from the    *)
(* earliest start to the latest end of those native cues: the group is     *)
(* the set of the target cues not yet consumed that overlap that interval. *)
(***************************************************************************)
C28_CombinedNative ==
  \A k \in Decided :
    LET trigger == decisions[k].trigger
        scanned == {p \in DOMAIN targetSubs :
                      /\ targetSubs[p].index \notin MarkedBy(k - 1)
                      /\ OverlapsNativeHull(trigger, targetSubs[p])}
    IN  /\ decisions[k].kind \in {"Replaced", "ReplacedAfterError"} =>
             finalSubtitles[k].text = NativeTextChronological(trigger)
        /\ (TookMultiPath(decisions[k]) /\ NativeOver(trigger) # {} /\ scanned # {}) =>
             (decisions[k].kind = "Replaced" /\ decisions[k].group = scanned)

\* field k of the argument is there and is a number: digits and nothing else
NumericField(k) ==
  /\ timeArg.defined
  /\ k \in DOMAIN timeArg.fields
  /\ timeArg.fields[k].digits # <<>>
  /\ timeArg.fields[k].rest = ""

\* the number that field k of the argument spells
FieldValue(k) == DigitsValue(timeArg.fields[k].digits)

(***************************************************************************)
(* C29.  srtTimeToMs returns h * 3600000 + m * 60000 + s * 1000 + ms for   *)
(* a timestamp of four numeric fields, and 0 whenever one of the four      *)
(* fields is missing or is not a number.                                   *)
(***************************************************************************)
C29_TimeOrZero ==
  timePc = "done" =>
    /\ (Len(timeArg.fields) = 4 /\ \A k \in 1..4 : NumericField(k)) =>
         timeResult = FieldValue(1) * 3600000 + FieldValue(2) * 60000
                        + FieldValue(3) * 1000 + FieldValue(4)
    /\ (\E k \in 1..4 : ~NumericField(k)) => timeResult = 0

(***************************************************************************)
(* C30.  Neither fuseSubtitles nor mergeOverlappingSubtitles changes its   *)
(* inputs: no step of either changes the target track, the native track or *)
(* the track handed to the merger (their order, and the index, start, end  *)
(* and text of each cue).                                                  *)
(***************************************************************************)
C30_InputsUnchanged ==
  [][/\ targetSubs' = targetSubs
     /\ nativeSubs' = nativeSubs
     /\ subtitles' = subtitles]_vars

\* a run has returned a cue that it took from the input as it is, under
\* another index than the input cue has
C30_Witness ==
  /\ pc = "done"
  /\ \E k \in DOMAIN decisions :
       /\ decisions[k].kind = "Kept"
       /\ finalSubtitles[k] = targetSubs[decisions[k].trigger]
       /\ hybrid[k].index # targetSubs[decisions[k].trigger].index

\* 2^k
RECURSIVE TwoToThe(_)
TwoToThe(k) == IF k = 0 THEN 1 ELSE 2 * TwoToThe(k - 1)

\* the waits are those of an exponential backoff: retryDelay * 2^k before
\* retry number k + 1
Backoff(waits) ==
  \A n \in DOMAIN waits : waits[n] = config.retryDelay * TwoToThe(n - 1)

(***************************************************************************)
(* C31.  makeRequest retries with an exponential backoff and ends.  A      *)
(* request is attempted at most config.maxRetries + 1 times, every attempt *)
(* but the first comes after a wait, the wait before retry number k + 1 is *)
(* retryDelay * 2^k, and a call whose attempts all fail with an error that *)
(* is not the timeout has made maxRetries + 1 attempts and throws to its   *)
(* caller.                                                                 *)
(***************************************************************************)
C31_RetriesBounded ==
  /\ call.attempts <= config.maxRetries + 1
  /\ Backoff(call.waits)
  /\ \A k \in DOMAIN calls :
       /\ calls[k].attempts <= config.maxRetries + 1
       /\ Backoff(calls[k].waits)
       /\ calls[k].outcome # "cached" => Len(calls[k].waits) = calls[k].attempts - 1
       /\ calls[k].outcome = "failed" =>
            /\ calls[k].attempts = config.maxRetries + 1
            /\ calls[k].translation = ""
            /\ calls[k].timestamp = 0

\* a call has thrown after four attempts, with waits of 1, 2 and 4 seconds
C31_Witness ==
  \E k \in DOMAIN calls :
    /\ calls[k].outcome = "failed"
    /\ calls[k].attempts = 4
    /\ calls[k].waits = <<1000, 2000, 4000>>

\* the cache key of call k of the history
KeyOf(k) ==
  getCacheKey(calls[k].word, calls[k].sourceLang, calls[k].targetLang, calls[k].context)

\* call j is the last call before call k that wrote the entry of k's key
WroteEntryFor(j, k) ==
  /\ j < k
  /\ calls[j].outcome = "ok"
  /\ KeyOf(j) = KeyOf(k)
  /\ \A m \in DOMAIN calls : (j < m /\ m < k /\ KeyOf(m) = KeyOf(k)) => calls[m].outcome # "ok"

TwentyFourHours == 24 * 60 * 60 * 1000

(***************************************************************************)
(* C32.  A cache entry is served only while it is younger than 24 hours.   *)
(* A call served from the cache read an entry younger than 24 hours; a     *)
(* call whose entry is 24 hours old or older sends a request and, when it  *)
(* succeeds, leaves in the cache its own translation with the time of its  *)
(* answer.                                                                 *)
(***************************************************************************)
C32_ServedWhileYoung ==
  \A k \in DOMAIN calls :
    /\ calls[k].outcome = "cached" =>
         calls[k].start - calls[k].timestamp < TwentyFourHours
    /\ \A j \in DOMAIN calls :
         (WroteEntryFor(j, k) /\ calls[k].start - calls[j].timestamp >= TwentyFourHours) =>
           /\ calls[k].outcome # "cached"
           /\ calls[k].attempts >= 1
           /\ calls[k].outcome = "ok" =>
                /\ calls[k].timestamp >= calls[k].start
                /\ calls[k].timestamp > calls[j].timestamp
                /\ k = Len(calls) =>
                     /\ KeyOf(k) \in DOMAIN cache
                     /\ cache[KeyOf(k)] = [translation |-> calls[k].translation,
                                           timestamp |-> calls[k].timestamp]

\* a call found its entry exactly 24 hours old, sent a request and replaced
\* the translation
C32_Witness ==
  /\ Len(calls) = 2
  /\ WroteEntryFor(1, 2)
  /\ calls[2].start - calls[1].timestamp = TwentyFourHours
  /\ calls[2].outcome = "ok"
  /\ calls[2].translation # calls[1].translation
  /\ cache[KeyOf(2)].translation = calls[2].translation

(***************************************************************************)
(* C33.  The invariant of the loop: the index of every target cue at a     *)
(* position the loop has passed is in the consumed set, and the cue that   *)
(* triggers a replacement in the multi-cue path is a member of the group   *)
(* the replacement stands for.                                             *)
(***************************************************************************)
C33_VisitedConsumed ==
  /\ \A p \in DOMAIN targetSubs :
       p < i => targetSubs[p].index \in processedTargetIndices
  /\ \A k \in Decided :
       decisions[k].kind = "Replaced" => decisions[k].trigger \in decisions[k].group

\* the first cue of the track triggered a replacement that stands for it
\* and for the second cue, and the loop has passed both
C33_Witness ==
  /\ i = 3
  /\ \E k \in Decided :
       /\ decisions[k].kind = "Replaced"
       /\ decisions[k].trigger = 1
       /\ decisions[k].group = {1, 2}

(***************************************************************************)
(* C34.  When the target track and the native track are both in            *)
(* chronological order and no two cues of a track share any time, every    *)
(* replacement cue emitted so far starts where the cue that triggered it   *)
(* starts, and the cues emitted so far have strictly increasing start      *)
(* times in the order of their emission.                                   *)
(***************************************************************************)
ReplacementKinds == {"Replaced", "ReplacedAfterError"}

C35_OutputsDisjoint ==
  (\A p \in DOMAIN subtitles : startMs(subtitles[p]) <= endMs(subtitles[p])) =>
    /\ \A j, k \in DOMAIN merged :
         j # k => /\ ~Overlaps500(merged[j], merged[k])
                  /\ ~mergeOverlap(merged[j], merged[k])
    /\ mpc = "done" => IsMergedTrack(merged)

\* the merger returned two cues, one of them merged from two input cues
\* that share more than 500 ms, and the two returned cues touch
C35_Witness ==
  /\ mpc = "done"
  /\ Len(merged) = 2
  /\ \E k \in DOMAIN mergedGroups :
       /\ Len(mergedGroups[k]) = 2
       /\ Overlaps500(subtitles[mergedGroups[k][1]], subtitles[mergedGroups[k][2]])
  /\ \/ endMs(merged[1]) = startMs(merged[2])
     \/ endMs(merged[2]) = startMs(merged[1])
(***************************************************************************)
(* C36.  A cue that lasts 500 ms or less never satisfies the overlap       *)
(* predicate, whatever the other interval.  In a fusion run a target cue   *)
(* that lasts 500 ms or less overlaps no native cue; when it triggers it   *)
(* is emitted with its own span, with its own text or with its text and    *)
(* an inline translation, never with native text; and it is in the group   *)
(* of no decision that another cue triggered.                              *)
(***************************************************************************)
IsShort(sub) == endMs(sub) - startMs(sub) <= 500

KeptKinds == {"Kept", "KeptNotTranslated", "KeptAfterError", "KeptNoNative"}

C36_ShortNeverReplaced ==
  /\ (overlapPc = "done" /\ overlapArgs[2] - overlapArgs[1] <= 500) => ~overlapResult
  /\ \A p \in DOMAIN targetSubs :
       IsShort(targetSubs[p]) =>
         /\ \A n \in DOMAIN nativeSubs :
              ~hasIntersection(targetSubs[p].start, targetSubs[p].end,
                               nativeSubs[n].start, nativeSubs[n].end)
         /\ \A k \in Decided :
              IF decisions[k].trigger = p
              THEN /\ decisions[k].kind \in KeptKinds \cup {"TranslatedInline"}
                   /\ decisions[k].group = {p}
                   /\ finalSubtitles[k].start = targetSubs[p].start
                   /\ finalSubtitles[k].end = targetSubs[p].end
                   /\ decisions[k].kind \in KeptKinds
                        => finalSubtitles[k].text = targetSubs[p].text
              ELSE p \notin decisions[k].group

\* the first cue was replaced by a native cue that also covers the second
\* cue, which lasts 300 ms and has two unknown words: the second cue was not
\* folded into the replacement and was kept when it triggered
C36_Witness ==
  /\ pc = "done"
  /\ Len(targetSubs) = 2
  /\ Len(decisions) = 2
  /\ decisions[1].kind = "Replaced"
  /\ decisions[1].group = {1}
  /\ IsShort(targetSubs[2])
  /\ decisions[2].kind = "KeptNoNative"
  /\ decisions[2].unknown = 2
  /\ \E n \in NativeOver(1) :
       /\ startMs(nativeSubs[n]) <= startMs(targetSubs[2])
       /\ endMs(targetSubs[2]) <= endMs(nativeSubs[n])
(***************************************************************************)
(* C37.  At every point of a fusion run, replacedCount is the number of    *)
(* target cues consumed by the replacement cues emitted so far (the cues   *)
(* of the group of a multi-cue replacement, the one cue of a fallback      *)
(* replacement), replacedWithOneUnknown is at most errorCount, and         *)
(* inlineTranslationCount + replacedCount is at most the number of target  *)
(* cues, so that the number of target cues less replacedCount is never     *)
(* negative.                                                               *)
(***************************************************************************)
ConsumedByReplacements ==
  {p \in DOMAIN targetSubs :
     \E k \in Decided : /\ decisions[k].kind \in ReplacementKinds
                         /\ p \in decisions[k].group}

C37_CountersConsistent ==
  /\ replacedCount = Cardinality(ConsumedByReplacements)
  /\ \A k \in Decided :
       decisions[k].kind = "ReplacedAfterError" => Cardinality(decisions[k].group) = 1
  /\ \A j, k \in Decided :
       (j # k /\ decisions[j].kind \in ReplacementKinds
              /\ decisions[k].kind \in ReplacementKinds)
         => decisions[j].group \cap decisions[k].group = {}
  /\ replacedWithOneUnknown <= errorCount
  /\ inlineTranslationCount + replacedCount <= Len(targetSubs)
  /\ Len(targetSubs) - replacedCount >= 0

\* of two target cues one was translated inline and the other replaced after
\* a failed translation: the two counters add up to the number of cues
C37_Witness ==
  /\ pc = "done"
  /\ Len(targetSubs) = 2
  /\ inlineTranslationCount = 1
  /\ replacedCount = 1
  /\ replacedWithOneUnknown = 1
  /\ errorCount = 1
(***************************************************************************)
(* C38.  In makeRequest a timeout is never retried: a call in progress has *)
(* had no attempt aborted by the timeout, and a call that is over had at   *)
(* most one, its last attempt, and then it raised 'DeepL API request timed *)
(* out' to its caller, retries left or not.                                *)
(***************************************************************************)
C38_TimeoutNotRetried ==
  /\ call.timeouts = 0
  /\ \A k \in DOMAIN calls :
       /\ calls[k].timeouts <= 1
       /\ calls[k].timeouts = 1 <=> calls[k].outcome = "timed out"
       /\ calls[k].outcome = "timed out" =>
            /\ calls[k].attempts >= 1
            /\ Len(calls[k].waits) = calls[k].attempts - 1

\* with three retries allowed, a call timed out at its second attempt, after
\* one failure and one wait: two retries were left
C38_Witness ==
  /\ config.maxRetries = 3
  /\ \E k \in DOMAIN calls :
       /\ calls[k].outcome = "timed out"
       /\ calls[k].attempts = 2
       /\ calls[k].waits = <<1000>>
(***************************************************************************)
(* C39.  A call of translateWord that fails leaves the cache as it was:    *)
(* the cache changes only in the step in which a call returns the          *)
(* translation of a response.  So a later call with the arguments of a     *)
(* call that failed, with no successful call on the same key in between,   *)
(* is not served from the cache: it sends a request.                       *)
(***************************************************************************)
Failed(k) == calls[k].outcome \in {"failed", "timed out"}

CacheWrittenOnSuccessOnly ==
  cache' # cache =>
    /\ Len(calls') = Len(calls) + 1
    /\ calls'[Len(calls')].outcome = "ok"

AfterFailureRequestsAgain ==
  \A j, k \in DOMAIN calls :
    (/\ j < k
     /\ Failed(j)
     /\ SameArguments(j, k)
     /\ \A m \in DOMAIN calls :
          (j < m /\ m < k /\ KeyOf(m) = KeyOf(j)) => calls[m].outcome # "ok")
      => /\ calls[k].outcome # "cached"
         /\ calls[k].attempts >= 1

C39_FailureLeavesCache ==
  /\ [][CacheWrittenOnSuccessOnly]_vars
  /\ []AfterFailureRequestsAgain

\* a call failed after all its attempts and left the cache empty; the next
\* call, with the same arguments, sent a request and got its translation
C39_Witness ==
  /\ Len(calls) = 2
  /\ calls[1].outcome = "failed"
  /\ calls[1].attempts = config.maxRetries + 1
  /\ SameArguments(1, 2)
  /\ calls[2].outcome = "ok"
  /\ calls[2].attempts >= 1
  /\ DOMAIN cache = {KeyOf(1)}
=============================================================================
